---- MODULE Spec2Model ----
(***************************************************************************)
(* Requirement list controller of compliance-copilot-web:                  *)
(*   - the filter codec (parseDueFilters, parseStatusFilters, resolvePage, *)
(*     queryParams, updateQuery),                                          *)
(*   - the status derivation (daysUntil, isOverdue, deriveUiStatus),       *)
(*   - the list controller (mirror, selection, SWR cache, mutations).      *)
(*                                                                         *)
(* Strings are sequences of atoms: a raw query value is a sequence whose   *)
(* elements are words, the comma and the blank; a page value is a sequence *)
(* of characters.  A query parameter is a record [present, value].         *)
(***************************************************************************)
EXTENDS Integers, Sequences, FiniteSets, TLC

VARIABLES
    query,        \* the URL query (useSearchParams)
    lastPatch,    \* the argument of the last updateQuery call
    decoded,      \* selectedDueFilters, selectedStatusFilters, requestedPage, queryParams
    now,          \* the clock read by daysUntil (ms since the epoch)
    record,       \* the record handed to deriveUiStatus
    badge,        \* what daysUntil, isOverdue and deriveUiStatus return for it
    pendingNav,   \* the navigation handed to router.replace, not committed yet
    srv,          \* the remote service: the status of each record, the other rows
    cache,        \* the SWR cache: the last data fetched for each key
    errKeys,      \* the keys whose last fetch failed (requirementsError, response.error)
    requirements, \* the data useApiData returns at the last render
    profile,      \* useAuthedProfile: TRUE once a profile is held
    requirementRows, \* the mirror
    selectedIds,  \* the selection
    completingId, \* the completing marker (0: null)
    inflight,     \* the requests in flight, one per slot
    toast,        \* the toast shown by the last step, if any
    lastEvent,    \* the last response handled ("other": a step that is none)
    used,         \* how many operations were started so far
    triageSave,   \* a triage form, the view it is saved from, what Save did
    docs,         \* the documents page: rows, tracked upload, polls and timers
    detailView    \* the detail view: the record held, form, baseline, how it was left

codecVars == <<query, lastPatch, decoded>>
dateVars == <<now, record, badge>>
formVars == <<triageSave>>
viewVars == <<detailView>>
docVars == <<docs>>
ctlVars == <<pendingNav, srv, cache, errKeys, requirements, profile, requirementRows,
             selectedIds, completingId, inflight, toast, lastEvent, used>>
vars == <<query, lastPatch, decoded, now, record, badge, pendingNav, srv, cache,
          errKeys, requirements, profile, requirementRows, selectedIds, completingId,
          inflight, toast, lastEvent, used,
          triageSave, docs, detailView>>

--------------------------------------------------------------------------
(* Bounds *)

MaxRawLen == 3
MaxDay == 2
MaxId == 2          \* the records the model follows: ids 1..MaxId
MaxInflight == 2    \* requests in flight at a time
MaxOps == 2         \* operations after the mount: mutation calls, updateQuery
                    \* calls, interval revalidations, refusals with a
                    \* message, a failure of the profile fetch, changes
                    \* made on the service by somebody else
MaxFiller == 23     \* records of the service the model does not follow
MaxCompletes == 3   \* presses of Complete when the completes are followed alone
MaxPageId == 3      \* the ids of the pages and selections of the select-all checkbox
MaxDocId == 2       \* the documents of the service
MaxEffects == 3     \* how often the poll effect of the documents page runs
MaxPolls == 3       \* how many polls of a document are sent
MaxSaves == 1       \* calls of Save of the detail view that are followed

--------------------------------------------------------------------------
(* Strings *)

Comma == ","
Blank == " "

Range(s) == {s[i] : i \in 1..Len(s)}

SeqsUpTo(S, n) == UNION {[1..k -> S] : k \in 0..n}

Absent == [present |-> FALSE, value |-> <<>>]
Given(v) == [present |-> TRUE, value |-> v]

\* URLSearchParams.get: null for a missing key; null and "" are both falsy
Falsy(p) == ~p.present \/ p.value = <<>>

\* String.prototype.split(",")
RECURSIVE Split(_)
Split(s) ==
    IF \A i \in 1..Len(s) : s[i] # Comma
    THEN <<s>>
    ELSE LET i == CHOOSE k \in 1..Len(s) :
                     s[k] = Comma /\ \A j \in 1..(k - 1) : s[j] # Comma
         IN  <<SubSeq(s, 1, i - 1)>> \o Split(SubSeq(s, i + 1, Len(s)))

\* String.prototype.trim
RECURSIVE Trim(_)
Trim(s) ==
    IF s = <<>> THEN s
    ELSE IF Head(s) = Blank THEN Trim(Tail(s))
    ELSE IF s[Len(s)] = Blank THEN Trim(SubSeq(s, 1, Len(s) - 1))
    ELSE s

\* String.prototype.toUpperCase, atom by atom
UpperAtom(a) ==
    CASE a = "open" -> "OPEN"
      [] a = "review" -> "REVIEW"
      [] a = "done" -> "DONE"
      [] OTHER -> a

ToUpperCase(s) == [i \in 1..Len(s) |-> UpperAtom(s[i])]

\* Array.prototype.join(",") of an array of words
RECURSIVE Join(_)
Join(words) ==
    IF words = <<>> THEN <<>>
    ELSE IF Len(words) = 1 THEN <<words[1]>>
    ELSE <<words[1], Comma>> \o Join(Tail(words))

Digits == <<"0", "1", "2", "3", "4", "5", "6", "7", "8", "9">>
IsDigit(c) == c \in Range(Digits)
DigitValue(c) == (CHOOSE i \in 1..10 : Digits[i] = c) - 1

\* String(n) of an integer
RECURSIVE NatToString(_)
NatToString(n) ==
    IF n < 10 THEN <<Digits[n + 1]>>
    ELSE NatToString(n \div 10) \o <<Digits[(n % 10) + 1]>>

NumberToString(n) == IF n < 0 THEN <<"-">> \o NatToString(-n) ELSE NatToString(n)

NaN == [nan |-> TRUE, n |-> 0]
Num(n) == [nan |-> FALSE, n |-> n]

RECURSIVE LeadingDigits(_)
LeadingDigits(s) ==
    IF s = <<>> \/ ~IsDigit(Head(s)) THEN <<>>
    ELSE <<Head(s)>> \o LeadingDigits(Tail(s))

RECURSIVE DigitsValue(_)
DigitsValue(ds) ==
    IF ds = <<>> THEN 0
    ELSE 10 * DigitsValue(SubSeq(ds, 1, Len(ds) - 1)) + DigitValue(ds[Len(ds)])

RECURSIVE TrimStart(_)
TrimStart(s) == IF s # <<>> /\ Head(s) = Blank THEN TrimStart(Tail(s)) ELSE s

\* Number.parseInt(s, 10): leading blanks, an optional sign, then the longest
\* run of digits; NaN when there is no digit; what follows the digits is ignored
ParseInt(s) ==
    LET t == TrimStart(s)
        neg == t # <<>> /\ Head(t) = "-"
        body == IF neg THEN Tail(t) ELSE t
        ds == LeadingDigits(body)
    IN  IF ds = <<>> THEN NaN
        ELSE Num(IF neg THEN -DigitsValue(ds) ELSE DigitsValue(ds))

--------------------------------------------------------------------------
(* Filter codec *)

PAGE_SIZE == 10

dueFilterOptions == <<"overdue", "due7", "due30">>
statusFilterOptions == <<"active", "completed", "archived", "triage">>

STATUS_QUERY_MAP(bucket) ==
    CASE bucket = "active" -> <<"OPEN", "REVIEW">>
      [] bucket = "completed" -> <<"DONE", "READY">>
      [] bucket = "archived" -> <<>>
      [] bucket = "triage" -> <<"PENDING_REVIEW">>

Includes(seq, x) == \E i \in 1..Len(seq) : seq[i] = x

\* new Set(...) filled in order, then Array.from: first occurrences, in order
RECURSIVE Dedupe(_)
Dedupe(seq) ==
    IF seq = <<>> THEN <<>>
    ELSE LET init == Dedupe(SubSeq(seq, 1, Len(seq) - 1))
             last == seq[Len(seq)]
         IN  IF Includes(init, last) THEN init ELSE Append(init, last)

parseDueFiltersInputOrder(q) ==
    IF Falsy(q.due) THEN <<>>
    ELSE LET pieces == Split(q.due.value)
             tokens == [i \in 1..Len(pieces) |-> Trim(pieces[i])]
             known(tok) == \E i \in 1..3 : tok = <<dueFilterOptions[i]>>
             kept == SelectSeq(tokens, known)
         IN  [i \in 1..Len(kept) |-> kept[i][1]]

parseDueFilters(q) ==
    IF Falsy(q.due) THEN <<>>
    ELSE LET pieces == Split(q.due.value)
             tokens == [i \in 1..Len(pieces) |-> Trim(pieces[i])]
             listed(option) == Includes(tokens, <<option>>)
         IN  SelectSeq(dueFilterOptions, listed)

parseStatusFilters(q) ==
    LET archived == IF q.archived.present /\ q.archived.value = <<"true">>
                    THEN <<"archived">> ELSE <<>>
        tokens == IF Falsy(q.status) THEN <<>>
                  ELSE LET pieces == Split(q.status.value)
                       IN  [i \in 1..Len(pieces) |-> ToUpperCase(Trim(pieces[i]))]
        has(word) == Includes(tokens, <<word>>)
        completed == IF has("DONE") \/ has("READY") THEN <<"completed">> ELSE <<>>
        active == IF has("OPEN") \/ has("REVIEW") THEN <<"active">> ELSE <<>>
        triage == IF has("PENDING_REVIEW") THEN <<"triage">> ELSE <<>>
    IN  archived \o completed \o active \o triage

resolvePage(q) ==
    LET parsed == IF Falsy(q.page) THEN Num(1) ELSE ParseInt(q.page.value)
    IN  IF parsed.nan \/ parsed.n < 1 THEN 1 ELSE parsed.n

\* the status value both queryParams and updateQuery build from the buckets
StatusTokens(buckets) ==
    Dedupe((IF Includes(buckets, "active") THEN STATUS_QUERY_MAP("active") ELSE <<>>)
        \o (IF Includes(buckets, "completed") THEN STATUS_QUERY_MAP("completed") ELSE <<>>)
        \o (IF Includes(buckets, "triage") THEN STATUS_QUERY_MAP("triage") ELSE <<>>))

queryParams(q) ==
    LET due == parseDueFilters(q)
        buckets == parseStatusFilters(q)
        includeArchived == Includes(buckets, "archived")
        tokens == StatusTokens(buckets)
    IN  [page |-> resolvePage(q),
         limit |-> PAGE_SIZE,
         due |-> IF Len(due) > 0 THEN Given(Join(due)) ELSE Absent,
         archived |-> IF includeArchived THEN Given(<<"true">>) ELSE Absent,
         status |-> IF ~includeArchived /\ Len(tokens) > 0
                    THEN Given(Join(tokens)) ELSE Absent]

NoPatch == [dueFilters |-> Absent, statusFilters |-> Absent, page |-> Absent]

updateDue(q, next) ==
    IF ~next.dueFilters.present THEN q.due
    ELSE IF Len(next.dueFilters.value) = 0 THEN Absent
    ELSE Given(Join(next.dueFilters.value))

updateStatusKeepStatus(q, next) ==
    IF ~next.statusFilters.present THEN q.status
    ELSE LET buckets == next.statusFilters.value
             tokens == StatusTokens(buckets)
         IN  IF Includes(buckets, "archived") THEN q.status
             ELSE IF Len(tokens) > 0 THEN Given(Join(tokens))
             ELSE Absent

updateStatus(q, next) ==
    IF ~next.statusFilters.present THEN q.status
    ELSE LET buckets == next.statusFilters.value
             tokens == StatusTokens(buckets)
         IN  IF Includes(buckets, "archived") THEN Absent
             ELSE IF Len(tokens) > 0 THEN Given(Join(tokens))
             ELSE Absent

updateArchived(q, next) ==
    IF ~next.statusFilters.present THEN q.archived
    ELSE IF Includes(next.statusFilters.value, "archived") THEN Given(<<"true">>)
    ELSE Absent

updatePageResetWithoutAPage(q, next) ==
    IF ~next.page.present THEN Absent
    ELSE IF next.page.value <= 1 THEN Absent
    ELSE Given(NumberToString(next.page.value))

updatePage(q, next) ==
    IF ~next.page.present THEN q.page
    ELSE IF next.page.value <= 1 THEN Absent
    ELSE Given(NumberToString(next.page.value))

\* the query string updateQuery hands to router.replace
updateQuery(q, next) ==
    [due |-> updateDue(q, next),
     status |-> updateStatus(q, next),
     archived |-> updateArchived(q, next),
     page |-> updatePage(q, next),
     other |-> q.other]

DuePatch(f) == [NoPatch EXCEPT !.dueFilters = Given(f)]
StatusPatch(f) == [NoPatch EXCEPT !.statusFilters = Given(f)]
PagePatch(p) == [NoPatch EXCEPT !.page = [present |-> TRUE, value |-> p]]
\* applyFilters and clearFilters: both filters and page 1 in one patch
FiltersPatch(due, status) ==
    [dueFilters |-> Given(due), statusFilters |-> Given(status),
     page |-> [present |-> TRUE, value |-> 1]]

Decode(q) ==
    [due |-> parseDueFilters(q),
     status |-> parseStatusFilters(q),
     page |-> resolvePage(q),
     params |-> queryParams(q)]

NotCalled == [called |-> FALSE, next |-> NoPatch]

EmptyQuery ==
    [due |-> Absent, status |-> Absent, archived |-> Absent, page |-> Absent, other |-> Absent]

--------------------------------------------------------------------------
(* Status derivation *)

MsPerDay == 1000 * 60 * 60 * 24

NullDays == [null |-> TRUE, n |-> 0]
Days(n) == [null |-> FALSE, n |-> n]

\* Date.UTC(y, m, d) of an instant: the start of its UTC day
UtcDayStart(t) == (t \div MsPerDay) * MsPerDay

\* Math.round(a / b) for b > 0: halves round up
RoundDiv(a, b) == (2 * a + b) \div (2 * b)

daysUntilInstants(value, clock) ==
    IF value.kind # "date" THEN NullDays
    ELSE Days(RoundDiv(value.t - clock, MsPerDay))

daysUntil(value, clock) ==
    IF value.kind # "date" THEN NullDays
    ELSE LET target == UtcDayStart(value.t)
             today == UtcDayStart(clock)
             diff == target - today
         IN  Days(RoundDiv(diff, MsPerDay))

isOverdue(value, clock) ==
    LET remaining == daysUntil(value, clock)
    IN  ~remaining.null /\ remaining.n < 0

deriveUiStatusOverdueFirst(rec, clock) ==
    LET daysRemaining == daysUntil(rec.due_date, clock)
        overdue == ~daysRemaining.null /\ daysRemaining.n < 0
    IN  IF overdue THEN "OVERDUE"
        ELSE IF rec.archive_state \in {"archived", "deleted"} THEN "ARCHIVED"
        ELSE IF rec.status = "ARCHIVED" THEN "ARCHIVED"
        ELSE IF rec.status = "PENDING_REVIEW" THEN "NEEDS_TRIAGE"
        ELSE IF rec.status \in {"DONE", "READY"} THEN "COMPLETED"
        ELSE IF rec.status = "REVIEW" THEN "NEEDS_REVIEW"
        ELSE "OPEN"

deriveUiStatus(rec, clock) ==
    IF rec.archive_state = "archived" \/ rec.archive_state = "deleted" THEN "ARCHIVED"
    ELSE IF rec.status = "ARCHIVED" THEN "ARCHIVED"
    ELSE LET status == IF rec.status = "null" THEN "OPEN" ELSE rec.status
             daysRemaining == daysUntil(rec.due_date, clock)
             overdue == ~daysRemaining.null /\ daysRemaining.n < 0
         IN  IF status = "PENDING_REVIEW"
             THEN (IF overdue THEN "OVERDUE" ELSE "NEEDS_TRIAGE")
             ELSE IF status = "DONE" \/ status = "READY"
             THEN (IF overdue THEN "OVERDUE" ELSE "COMPLETED")
             ELSE IF status = "REVIEW"
             THEN (IF overdue THEN "OVERDUE" ELSE "NEEDS_REVIEW")
             ELSE IF overdue THEN "OVERDUE"
             ELSE "OPEN"

--------------------------------------------------------------------------
(* The list controller: records, the remote service, SWR, the effects *)

Ids == 1..MaxId

ServiceStatuses == {"OPEN", "PENDING_REVIEW", "DONE", "ARCHIVED"}

Row(i, st) ==
    [id |-> i, status |-> st,
     archive_state |-> IF st = "ARCHIVED" THEN "archived" ELSE "active"]

\* every record of the service: the followed ones first, then the others
ServiceRows(s) ==
    [i \in 1..(MaxId + s.filler) |-> Row(i, IF i <= MaxId THEN s.status[i] ELSE "OPEN")]

Max(a, b) == IF a >= b THEN a ELSE b
Min(a, b) == IF a <= b THEN a ELSE b
Ceil(a, b) == (a + b - 1) \div b

\* the key of the plain list, queryParams of the empty query
NoKey ==
    [page |-> 1, limit |-> PAGE_SIZE, due |-> Absent, archived |-> Absent,
     status |-> Absent]

NoData ==
    [defined |-> FALSE, origin |-> "none", key |-> NoKey, items |-> <<>>,
     page |-> 0, total |-> 0]

\* GET /requirements: the page of the list the key asks for, clamped; the
\* filters of the key select nothing here, the records carry no due date
\* and the fixture service does not filter by status
ListResponse(s, key, origin) ==
    LET rows == ServiceRows(s)
        limitParam == Max(1, Min(100, key.limit))
        requestedPage == Max(1, key.page)
        total == Len(rows)
        pages == Max(1, Ceil(total, limitParam))
        page == Min(requestedPage, pages)
        start == (page - 1) * limitParam
    IN  [defined |-> TRUE, origin |-> origin, key |-> key,
         items |-> SubSeq(rows, start + 1, Min(start + limitParam, total)),
         page |-> page, total |-> total]

\* Number(s): blanks trimmed, the empty string is 0, a signed run of digits
\* is its value, anything else is NaN
ToNumber(s) ==
    LET t == Trim(s)
        neg == t # <<>> /\ Head(t) = "-"
        body == IF neg THEN Tail(t) ELSE t
    IN  IF t = <<>> THEN Num(0)
        ELSE IF body # <<>> /\ \A i \in 1..Len(body) : IsDigit(body[i])
             THEN Num(IF neg THEN -DigitsValue(body) ELSE DigitsValue(body))
        ELSE NaN

\* the search parameters of the prefetch made by the server page
SeedKey(q) ==
    LET n == IF q.page.present THEN ToNumber(q.page.value) ELSE NaN
        due == IF ~Falsy(q.due) /\ Len(q.due.value) = 1
                  /\ Includes(dueFilterOptions, q.due.value[1])
               THEN q.due ELSE Absent
    IN  [page |-> IF ~n.nan /\ n.n > 0 THEN n.n ELSE 1,
         limit |-> PAGE_SIZE, due |-> due, archived |-> Absent, status |-> Absent]

fetchInitialRequirements(s, q, ok) ==
    IF ok THEN ListResponse(s, SeedKey(q), "seed") ELSE NoData

\* get().data, what the bound mutate() resolves to: the cached data of the key
Cached(c, key) ==
    IF \E d \in c : d.key = key THEN CHOOSE d \in c : d.key = key ELSE NoData

\* what useSWR returns with keepPreviousData and fallbackData: the cached
\* data of the key, else the data returned before
Returned(c, key, previous) ==
    LET cachedData == Cached(c, key)
    IN  IF cachedData.defined THEN cachedData ELSE previous

\* the cache once a response for the key of d has been accepted
Put(c, d) == {x \in c : x.key # d.key} \cup {d}

totalItems(data, rows) == IF data.defined THEN data.total ELSE Len(rows)
pageCount(data, rows) == Max(1, Ceil(totalItems(data, rows), PAGE_SIZE))
currentPage(data, requestedPage) == IF data.defined THEN data.page ELSE requestedPage

SelectionFilterIdsOnly(prev, rows) ==
    SelectSeq(prev, LAMBDA id : \E i \in 1..Len(rows) : rows[i].id = id)

\* the selection-filter effect
SelectionFilter(prev, rows) ==
    SelectSeq(prev, LAMBDA id :
        \E i \in 1..Len(rows) : rows[i].id = id /\ rows[i].status = "PENDING_REVIEW")

showSelectionColumn(rows, selectedStatusFilters) ==
    \/ Includes(selectedStatusFilters, "triage")
    \/ \E i \in 1..Len(rows) : rows[i].status = "PENDING_REVIEW"

\* the effects that follow a render: the selection filter when the mirror
\* was written, then the clearing of a selection with no selection column
EffectsWithoutClearing(written, rows, sel, selectedStatusFilters) ==
    IF written THEN SelectionFilterIdsOnly(sel, rows) ELSE sel

Effects(written, rows, sel, selectedStatusFilters) ==
    LET filtered == IF written THEN SelectionFilter(sel, rows) ELSE sel
    IN  IF ~showSelectionColumn(rows, selectedStatusFilters) /\ Len(filtered) > 0
        THEN <<>> ELSE filtered

selectedRequirements(rows, sel) == SelectSeq(rows, LAMBDA item : Includes(sel, item.id))

\* setRequirementRows(prev => prev.map(row => row.id === updated.id ? updated : row))
ReplaceRowOrAppend(rows, updated) ==
    IF \E i \in 1..Len(rows) : rows[i].id = updated.id
    THEN [i \in 1..Len(rows) |-> IF rows[i].id = updated.id THEN updated ELSE rows[i]]
    ELSE Append(rows, updated)

ReplaceRow(rows, updated) ==
    [i \in 1..Len(rows) |-> IF rows[i].id = updated.id THEN updated ELSE rows[i]]

\* refreshAndHydrate once refreshRequirements() has resolved to latest
hydrateClearsWithoutData(latest, rows) == IF latest.defined THEN latest.items ELSE <<>>

hydrate(latest, rows) == IF latest.defined THEN latest.items ELSE rows

\* finally { setCompletingId(null) }
completeFinallyKeepsMarker(marker) == marker

completeFinally(marker) == 0

NoToast == [level |-> "none", msg |-> "none"]
Toast(level, msg) == [level |-> level, msg |-> msg]

\* what a call that fails throws: an ApiError with the status of the
\* response, or the error of fetch itself
\* what a failed response carries for the message of its ApiError: a detail
\* in its JSON payload, else the status text of the response, else nothing
ErrorTexts == {"detail", "statusText", "none"}

ApiErrorOf(status, text) == [api |-> TRUE, status |-> status, text |-> text]
ApiError(status) == ApiErrorOf(status, "detail")
NetworkError == [api |-> FALSE, status |-> 0, text |-> "none"]
FailureKinds ==
    {ApiError(401), NetworkError} \cup {ApiErrorOf(500, text) : text \in ErrorTexts}

\* payload?.detail ?? response.statusText, then message || "Request failed"
ApiErrorMessage(failure) ==
    IF failure.text = "detail" THEN "payload.detail"
    ELSE IF failure.text = "statusText" THEN "response.statusText"
    ELSE "Request failed"

\* the message of the catch blocks: the ApiError's own, else the fallback
CatchMessage(failure, fallback) ==
    IF failure.api THEN ApiErrorMessage(failure) ELSE fallback

\* a request in flight: a list fetch (its key; hydrate: refreshAndHydrate
\* awaits it; clearMarker: handleComplete awaits that; live: no later request
\* for the key has superseded it) or the call of a mutation (the ids it is
\* for; done: the archive calls of a bulk dismiss answered so far; panel: the
\* triage panel started it and awaits it)
NoReq ==
    [kind |-> "idle", key |-> NoKey, ids |-> {}, done |-> {}, hydrate |-> FALSE,
     clearMarker |-> FALSE, live |-> FALSE, panel |-> FALSE, reasons |-> <<>>]

ListReq(key, hyd, clear) ==
    [kind |-> "list", key |-> key, ids |-> {}, done |-> {}, hydrate |-> hyd,
     clearMarker |-> clear, live |-> TRUE, panel |-> FALSE, reasons |-> <<>>]

\* reasons: the reason in the body of the archive call of each id
CallReq(kind, ids, panel, reasons) ==
    [kind |-> kind, key |-> NoKey, ids |-> ids, done |-> {}, hydrate |-> FALSE,
     clearMarker |-> FALSE, live |-> TRUE, panel |-> panel, reasons |-> reasons]

Slots == 1..MaxInflight
HasFree(inf) == \E s \in Slots : inf[s].kind = "idle"
FreeSlot(inf) == CHOOSE s \in Slots :
    inf[s].kind = "idle" /\ \A r \in Slots : r < s => inf[r].kind # "idle"
LiveFor(inf, key) == \E s \in Slots : inf[s].kind = "list" /\ inf[s].key = key /\ inf[s].live

\* a new request for the key: the responses of the older ones are discarded
Supersede(inf, key) ==
    [s \in Slots |-> IF inf[s].kind = "list" /\ inf[s].key = key
                     THEN [inf[s] EXCEPT !.live = FALSE] ELSE inf[s]]

NoNav == [pending |-> FALSE, path |-> "none", q |-> EmptyQuery]

\* router.replace("/login")
LoginNav == [pending |-> TRUE, path |-> "/login", q |-> EmptyQuery]

\* the key of useApiData("/auth/me"), which has no parameters
ProfileKey ==
    [page |-> 0, limit |-> 0, due |-> Absent, archived |-> Absent, status |-> Absent]
NoEvent == "other"

(* The detail view: what it holds *)

\* attributes.archive of a record that was never archived
NoArchive == [state |-> "null", reason |-> <<>>, requested_at |-> "none",
              requested_by |-> "none"]

\* a record as a response carries it; status null: Absent
NoRequirement ==
    [status |-> Absent, due_date |-> Absent, frequency |-> Absent,
     anchor_type |-> Absent, anchor_date |-> Absent, anchor_interval |-> Absent,
     assignee |-> Absent, archive_state |-> "null", archive |-> NoArchive]

\* new Date(value).toISOString().slice(0, 10) of a timestamp held as its date
\* and its time of day
deriveDateInput(value) ==
    IF Falsy(value) THEN Absent ELSE Given(SubSeq(value.value, 1, 1))

\* the fields of the form and of the baseline that hydrateFromResponse reads
\* from a record (requirement.status ?? "OPEN", deriveAnchorMeta,
\* extractAssignee)
FormOfRequirement(updated) ==
    [status |-> IF updated.status.present THEN updated.status ELSE Given(<<"OPEN">>),
     dueDate |-> deriveDateInput(updated.due_date),
     frequency |-> updated.frequency,
     anchorType |-> updated.anchor_type,
     anchorDate |-> deriveDateInput(updated.anchor_date),
     interval |-> updated.anchor_interval,
     assignee |-> updated.assignee]

extractArchiveMeta(requirement) ==
    [state |-> IF requirement.archive.state # "null" THEN requirement.archive.state
               ELSE requirement.archive_state,
     reason |-> requirement.archive.reason,
     requestedAt |-> requirement.archive.requested_at,
     requestedBy |-> requirement.archive.requested_by]

\* the detail view is followed only where a specification opens it
NoView ==
    [view |-> "none", id |-> 0, remote |-> NoRequirement,
     currentRequirement |-> NoRequirement,
     baseline |-> FormOfRequirement(NoRequirement),
     form |-> FormOfRequirement(NoRequirement),
     archive |-> extractArchiveMeta(NoRequirement),
     request |-> "none", applied |-> NoRequirement, saves |-> 0, asked |-> FALSE, left |-> "none", blocked |-> FALSE,
     toast |-> NoToast, event |-> "none"]

IdleView == detailView = NoView

hydrateFromResponse(d, updated) ==
    IF d.view = "none" THEN d
    ELSE [d EXCEPT !.currentRequirement = updated,
                   !.baseline = FormOfRequirement(updated),
                   !.form = FormOfRequirement(updated),
                   !.archive = extractArchiveMeta(updated)]

\* the view as first rendered with the record of the server component
OpenedView(id, requirement) ==
    [hydrateFromResponse([NoView EXCEPT !.view = "detail"], requirement)
        EXCEPT !.id = id, !.remote = requirement]

isTriageMode(d) == d.baseline.status = Given(<<"PENDING_REVIEW">>)

isDirtyComparingEveryField(d) ==
    \/ d.form.frequency # d.baseline.frequency
    \/ d.form.anchorType # d.baseline.anchorType
    \/ d.form.anchorDate # d.baseline.anchorDate
    \/ d.form.interval # d.baseline.interval
    \/ d.form.assignee # d.baseline.assignee
    \/ d.form.status # d.baseline.status
    \/ d.form.dueDate # d.baseline.dueDate

isDirty(d) ==
    LET triageDirty ==
            \/ d.form.frequency # d.baseline.frequency
            \/ d.form.anchorType # d.baseline.anchorType
            \/ d.form.anchorDate # d.baseline.anchorDate
            \/ d.form.interval # d.baseline.interval
            \/ d.form.assignee # d.baseline.assignee
            \/ d.form.status # d.baseline.status
            \/ d.form.dueDate # d.baseline.dueDate
        standardDirty ==
            \/ d.form.status # d.baseline.status
            \/ d.form.dueDate # d.baseline.dueDate
    IN  IF isTriageMode(d) THEN triageDirty ELSE standardDirty

(* The documents page: what it holds *)

DocIds == 1..MaxDocId

\* the statuses of a document on the service; "ABSENT": GET answers 404
DocStatuses == {"ABSENT", "PROCESSING", "READY", "FAILED"}

\* GET /documents: the documents of the service
DocumentsResponse(service) ==
    LET Present == {i \in DocIds : service[i] # "ABSENT"}
        RECURSIVE List(_)
        List(n) == IF n = 0 THEN <<>>
                   ELSE IF n \in Present
                   THEN Append(List(n - 1), [id |-> n, status |-> service[n]])
                   ELSE List(n - 1)
    IN  [has |-> TRUE, items |-> List(MaxDocId)]

\* initialDocuments of a prefetch that failed
NoDocuments == [has |-> FALSE, items |-> <<>>]

\* the outcomes of GET /documents/{id}
PollOutcomes(service, id) ==
    (IF service[id] = "ABSENT" THEN {[kind |-> "error", api |-> TRUE, status |-> 404]}
     ELSE {[kind |-> "ok", api |-> TRUE, status |-> 200]})
    \cup {[kind |-> "error", api |-> TRUE, status |-> 401],
          [kind |-> "error", api |-> TRUE, status |-> 500],
          [kind |-> "error", api |-> FALSE, status |-> 0]}

\* prev.map(row => row.id === detail.id ? detail : row), appended when absent
rowsWithDetail(prev, detail) ==
    LET updated == [i \in 1..Len(prev) |->
                       IF prev[i].id = detail.id THEN detail ELSE prev[i]]
    IN  IF \E i \in 1..Len(updated) : updated[i].id = detail.id
        THEN updated
        ELSE Append(updated, detail)

\* documents.items.find(item => item.id === pendingDocumentId)
pendingDoc(documents, id) ==
    LET found == {i \in 1..Len(documents.items) : documents.items[i].id = id}
    IN  IF found = {} THEN [id |-> 0, status |-> "none"]
        ELSE documents.items[CHOOSE i \in found : \A j \in found : i <= j]

NoDocs ==
    [mounted |-> FALSE, stored |-> 0, service |-> [i \in DocIds |-> "ABSENT"],
     documents |-> NoDocuments, documentRows |-> <<>>, pendingDocumentId |-> 0,
     uploadState |-> "idle", effect |-> 0, effects |-> 0, polled |-> 0,
     polls |-> {}, timers |-> {}, refreshes |-> {}, toast |-> "none",
     event |-> "none"]

IdleDocs == docs = NoDocs

IdleController ==
    /\ pendingNav = NoNav
    /\ srv = [status |-> [i \in Ids |-> "OPEN"], filler |-> 0]
    /\ cache = {}
    /\ errKeys = {}
    /\ requirements = NoData
    /\ profile = FALSE
    /\ requirementRows = <<>>
    /\ selectedIds = <<>>
    /\ completingId = 0
    /\ inflight = [s \in Slots |-> NoReq]
    /\ toast = NoToast
    /\ lastEvent = NoEvent
    /\ used = 0

--------------------------------------------------------------------------
(* The triage form of the panel and of the detail view: validation, payload *)

FREQUENCIES ==
    <<"BEFORE_EACH_USE", "DAILY", "WEEKLY", "MONTHLY", "QUARTERLY", "ANNUAL",
      "EVERY_N_DAYS", "EVERY_N_WEEKS", "EVERY_N_MONTHS", "ONE_TIME">>

\* frequency.startsWith("EVERY_N_"), for the frequencies of the select
StartsWithEveryN(frequency) ==
    frequency \in {"EVERY_N_DAYS", "EVERY_N_WEEKS", "EVERY_N_MONTHS"}

\* a field of the form: undefined (Absent) or its text; a select holds one atom
Chosen(field) == field.value[1]

\* a JavaScript number counted in tenths, or undefined
Undefined == [defined |-> FALSE, nan |-> FALSE, tenths |-> 0]
Tenths(n) == [defined |-> TRUE, nan |-> FALSE, tenths |-> n]
NotANumber == [defined |-> TRUE, nan |-> TRUE, tenths |-> 0]

\* Number(s) of the text of a number field: an optional sign, digits and at
\* most one decimal
NumberOfField(s) ==
    LET neg == s # <<>> /\ Head(s) = "-"
        body == IF neg THEN Tail(s) ELSE s
        whole == LeadingDigits(body)
        rest == SubSeq(body, Len(whole) + 1, Len(body))
        sign == IF neg THEN -1 ELSE 1
    IN  IF s = <<>> THEN Tenths(0)
        ELSE IF whole = <<>> THEN NotANumber
        ELSE IF rest = <<>> THEN Tenths(sign * 10 * DigitsValue(whole))
        ELSE IF Len(rest) = 2 /\ rest[1] = "." /\ IsDigit(rest[2])
        THEN Tenths(sign * (10 * DigitsValue(whole) + DigitValue(rest[2])))
        ELSE NotANumber

\* form.interval ? Number(form.interval) : undefined
intervalValue(interval) ==
    IF Falsy(interval) THEN Undefined ELSE NumberOfField(interval.value)

\* a number that is truthy: neither undefined, NaN nor 0
Truthy(n) == n.defined /\ ~n.nan /\ n.tenths # 0

\* !intervalValue || Number.isNaN(intervalValue) || intervalValue <= 0
intervalRefused(n) == ~Truthy(n) \/ n.nan \/ n.tenths <= 0

needsDueDate(frequency) == frequency \notin {"BEFORE_EACH_USE", "ONE_TIME"}

\* <input type="number" min={1}> of a form submitted by its button: the
\* browser holds the submit event back unless the field is empty or holds
\* 1, 2, 3, ... (min 1, step 1)
IntervalFieldAccepted(form) ==
    (~Falsy(form.frequency) /\ StartsWithEveryN(Chosen(form.frequency))
     /\ ~Falsy(form.interval)) =>
        LET n == NumberOfField(form.interval.value)
        IN  ~n.nan /\ n.tenths >= 10 /\ n.tenths % 10 = 0

\* the checks of handleSubmit of the panel: the key of the message it refuses
\* the form with, "none" when it goes on to onSubmit
handleSubmitRefusalWithoutInterval(form) ==
    IF Falsy(form.status) THEN "triage.statusRequired"
    ELSE IF Falsy(form.frequency) THEN "triage.frequencyRequired"
    ELSE IF needsDueDate(Chosen(form.frequency)) /\ Falsy(form.dueDate)
    THEN "triage.dueRequired"
    ELSE "none"

handleSubmitRefusal(form) ==
    IF Falsy(form.status) THEN "triage.statusRequired"
    ELSE IF Falsy(form.frequency) THEN "triage.frequencyRequired"
    ELSE IF needsDueDate(Chosen(form.frequency)) /\ Falsy(form.dueDate)
    THEN "triage.dueRequired"
    ELSE IF /\ StartsWithEveryN(Chosen(form.frequency))
            /\ intervalRefused(intervalValue(form.interval))
    THEN "triage.intervalRequired"
    ELSE "none"

\* the checks of handleSave of the detail view, for a record to be triaged
\* whose form was changed (isTriageMode, isDirty)
handleSaveRefusal(form) ==
    IF Falsy(form.frequency) THEN "triage.frequencyRequired"
    ELSE IF needsDueDate(Chosen(form.frequency)) /\ Falsy(form.dueDate)
    THEN "triage.dueRequired"
    ELSE IF /\ StartsWithEveryN(Chosen(form.frequency))
            /\ intervalRefused(intervalValue(form.interval))
    THEN "triage.intervalRequired"
    ELSE "none"

\* anchor_value: undefined, or an object with some of its keys
NoAnchorValue ==
    [defined |-> FALSE, date |-> Absent, interval |-> Undefined, days |-> Undefined,
     weeks |-> Undefined, months |-> Undefined]
EmptyAnchorValue == [NoAnchorValue EXCEPT !.defined = TRUE]

\* new Date(text).toISOString() of a date and a time of day in UTC
ToISOString(date, time) == date \o <<time>>

\* anchorValue.interval = n, then the key of the frequency
withIntervalOnly(anchorValue, frequency, n) ==
    [anchorValue EXCEPT !.defined = TRUE, !.interval = n]

withInterval(anchorValue, frequency, n) ==
    [anchorValue EXCEPT
        !.defined = TRUE,
        !.interval = n,
        !.days = IF frequency = "EVERY_N_DAYS" THEN n ELSE @,
        !.weeks = IF frequency = "EVERY_N_WEEKS" THEN n ELSE @,
        !.months = IF frequency = "EVERY_N_MONTHS" THEN n ELSE @]

\* the payload handleSubmit of the panel builds for a form it accepted
panelPayload(form, ids) ==
    LET frequency == Chosen(form.frequency)
        n == intervalValue(form.interval)
        dated == IF ~Falsy(form.anchorType) /\ ~Falsy(form.anchorDate)
                 THEN [EmptyAnchorValue EXCEPT
                          !.date = Given(ToISOString(form.anchorDate.value, "T00:00:00.000Z"))]
                 ELSE NoAnchorValue
        typed == IF ~Falsy(form.anchorType) /\ ~dated.defined
                 THEN EmptyAnchorValue ELSE dated
        anchorValue == IF StartsWithEveryN(frequency) /\ Truthy(n)
                       THEN withInterval(typed, frequency, n) ELSE typed
    IN  [requirement_ids |-> ids,
         frequency |-> form.frequency,
         anchor_type |-> IF Falsy(form.anchorType) THEN Absent ELSE form.anchorType,
         anchor_value |-> anchorValue,
         due_date |-> IF Falsy(form.dueDate) THEN Absent
                      ELSE Given(ToISOString(form.dueDate.value, "T00:00:00.000Z")),
         assignee |-> IF Falsy(form.assignee) THEN Absent ELSE form.assignee,
         status |-> IF Falsy(form.status) THEN Absent ELSE form.status]

\* the payload handleSave of the detail view builds in triage mode
detailPayload(form, ids) ==
    LET frequency == Chosen(form.frequency)
        n == intervalValue(form.interval)
        interval == StartsWithEveryN(frequency) /\ Truthy(n)
        dated == IF Falsy(form.anchorDate) THEN EmptyAnchorValue
                 ELSE [EmptyAnchorValue EXCEPT
                          !.date = Given(ToISOString(form.anchorDate.value, "T00:00:00.000Z"))]
        anchorValue == IF ~Falsy(form.anchorType) \/ ~Falsy(form.anchorDate) \/ interval
                       THEN IF interval THEN withInterval(dated, frequency, n) ELSE dated
                       ELSE NoAnchorValue
    IN  [requirement_ids |-> ids,
         frequency |-> form.frequency,
         anchor_type |-> IF Falsy(form.anchorType) THEN Absent ELSE form.anchorType,
         anchor_value |-> anchorValue,
         due_date |-> IF Falsy(form.dueDate) THEN Absent
                      ELSE Given(ToISOString(form.dueDate.value, "T12:00:00.000Z")),
         assignee |-> IF Trim(form.assignee.value) = <<>> THEN Absent
                      ELSE Given(Trim(form.assignee.value)),
         status |-> form.status]

NoPayload ==
    [requirement_ids |-> <<>>, frequency |-> Absent, anchor_type |-> Absent,
     anchor_value |-> NoAnchorValue, due_date |-> Absent, assignee |-> Absent,
     status |-> Absent]

\* what Save did: nothing yet, a refusal with its message, or the call
NotSaved == [saved |-> FALSE, called |-> FALSE, message |-> "none", payload |-> NoPayload]
Refused(message) ==
    [saved |-> TRUE, called |-> FALSE, message |-> message, payload |-> NoPayload]
Called(payload) ==
    [saved |-> TRUE, called |-> TRUE, message |-> "none", payload |-> payload]

handleSubmit(form, ids) ==
    IF handleSubmitRefusal(form) # "none" THEN Refused(handleSubmitRefusal(form))
    ELSE Called(panelPayload(form, ids))

handleSave(form, ids) ==
    IF handleSaveRefusal(form) # "none" THEN Refused(handleSaveRefusal(form))
    ELSE Called(detailPayload(form, ids))

EmptyForm ==
    [status |-> Absent, frequency |-> Absent, anchorType |-> Absent,
     anchorDate |-> Absent, dueDate |-> Absent, assignee |-> Absent,
     interval |-> Absent]

\* the form of the triage panel is followed only where a specification
\* mounts it
NoPanel == [view |-> "none", form |-> EmptyForm, outcome |-> NotSaved]

IdleForm == triageSave = NoPanel

\* {hasSelection && <TriagePanel .../>}: no panel without a selection
UnmountedPanel == [view |-> "unmounted", form |-> EmptyForm, outcome |-> NotSaved]

\* useState<FormState>({ status: "OPEN" })
InitialPanelForm == [EmptyForm EXCEPT !.status = Given(<<"OPEN">>)]

MountedPanel(form) == [view |-> "panel", form |-> form, outcome |-> NotSaved]

\* the panel after a render: unmounted with its form when nothing is
\* selected, mounted with the initial form when something is selected again
PanelAfter(save, shown) ==
    IF save.view = "none" THEN save
    ELSE IF ~shown THEN UnmountedPanel
    ELSE IF save.view = "unmounted" THEN MountedPanel(InitialPanelForm)
    ELSE save

--------------------------------------------------------------------------
(* The codec on its own: any query string, any patch *)

DueAtoms == {"overdue", "due7", "bogus", Comma, Blank}
StatusAtoms == {"review", "READY", "PENDING_REVIEW", "FOO", Comma, Blank}
PageChars == {"0", "2", "-", "a", Blank}

RawParams(atoms) == {Absent} \cup {Given(v) : v \in SeqsUpTo(atoms, MaxRawLen)}

ArchivedParams == {Absent, Given(<<"true">>), Given(<<"false">>)}
OtherParams == {Absent, Given(<<"x">>)}

NoDupSeqs(S) ==
    {s \in SeqsUpTo(S, Cardinality(S)) : \A i, j \in 1..Len(s) : i # j => s[i] # s[j]}

DuePatchValues == NoDupSeqs(Range(dueFilterOptions))
StatusPatchValues ==
    {SelectSeq(statusFilterOptions, LAMBDA b : b \in S) : S \in SUBSET Range(statusFilterOptions)}
PagePatchValues == {0, 1, 2, 3, 12}

CodecPatches ==
    {DuePatch(f) : f \in DuePatchValues}
    \cup {StatusPatch(f) : f \in StatusPatchValues}
    \cup {PagePatch(p) : p \in PagePatchValues}
    \cup {FiltersPatch(<<>>, <<>>), FiltersPatch(<<"due7">>, <<"archived">>),
          FiltersPatch(<<"due30", "overdue">>, <<"active", "triage">>)}

\* any query string of the address bar, and the ones updateQuery writes itself
CodecQueries ==
    {updateQuery(EmptyQuery, next) : next \in CodecPatches}
    \cup
    [due : RawParams(DueAtoms),
     status : {Absent, Given(<<"OPEN">>)},
     archived : {Absent, Given(<<"true">>)},
     page : {Absent},
     other : {Absent}]
    \cup
    [due : {Absent},
     status : RawParams(StatusAtoms),
     archived : ArchivedParams,
     page : {Absent},
     other : {Absent}]
    \cup
    [due : {Given(<<"due7">>)},
     status : {Absent},
     archived : {Absent},
     page : RawParams(PageChars),
     other : OtherParams]

IdleDates ==
    /\ now = 0
    /\ record = [archive_state |-> "null", status |-> "null", due_date |-> [kind |-> "null", t |-> 0]]
    /\ badge = [days |-> NullDays, overdue |-> FALSE, ui |-> "OPEN"]

CodecInit ==
    /\ query \in CodecQueries
    /\ lastPatch = NotCalled
    /\ decoded = Decode(query)
    /\ IdleDates
    /\ IdleView
    /\ IdleDocs
    /\ IdleController
    /\ IdleForm

\* one call of updateQuery on the query string drawn by CodecInit
EncodeQuery ==
    \E next \in CodecPatches :
        /\ ~lastPatch.called
        /\ query' = updateQuery(query, next)
        /\ lastPatch' = [called |-> TRUE, next |-> next]
        /\ decoded' = Decode(query')
        /\ UNCHANGED <<dateVars, viewVars, docVars, ctlVars, formVars>>

CodecNext == EncodeQuery

CodecSpec == CodecInit /\ [][CodecNext]_vars

--------------------------------------------------------------------------
(* The status derivation on its own: any record, any time of any day *)

TimesOfDay == {0, MsPerDay \div 2, MsPerDay - 1}
Instants == {d * MsPerDay + tod : d \in 0..MaxDay, tod \in TimesOfDay}

DueDates ==
    {[kind |-> k, t |-> 0] : k \in {"null", "empty", "invalid"}}
    \cup {[kind |-> "date", t |-> t] : t \in Instants}

ArchiveStates == {"null", "active", "pending", "archived", "restored", "deleted"}
RawStatuses == {"null", "OPEN", "REVIEW", "PENDING_REVIEW", "READY", "DONE", "ARCHIVED"}
UiStatuses == {"OPEN", "NEEDS_REVIEW", "NEEDS_TRIAGE", "COMPLETED", "ARCHIVED", "OVERDUE"}

Records == [archive_state : ArchiveStates, status : RawStatuses, due_date : DueDates]

Badge(rec, clock) ==
    [days |-> daysUntil(rec.due_date, clock),
     overdue |-> isOverdue(rec.due_date, clock),
     ui |-> deriveUiStatus(rec, clock)]

IdleCodec ==
    /\ query = EmptyQuery
    /\ lastPatch = NotCalled
    /\ decoded = Decode(query)

DateInit ==
    /\ now \in Instants
    /\ record \in Records
    /\ badge = Badge(record, now)
    /\ IdleCodec
    /\ IdleView
    /\ IdleDocs
    /\ IdleController
    /\ IdleForm

\* a reload changes one field of the record and the table is rendered again
RenderRecord ==
    /\ \/ \E a \in ArchiveStates : record' = [record EXCEPT !.archive_state = a]
       \/ \E st \in RawStatuses : record' = [record EXCEPT !.status = st]
       \/ \E d \in DueDates : record' = [record EXCEPT !.due_date = d]
    /\ badge' = Badge(record', now)
    /\ UNCHANGED <<now, codecVars, viewVars, docVars, ctlVars, formVars>>

\* time passes and the table is rendered again
ClockAdvance ==
    /\ now' \in {t \in Instants : t > now}
    /\ badge' = Badge(record, now')
    /\ UNCHANGED <<record, codecVars, viewVars, docVars, ctlVars, formVars>>

DateNext == RenderRecord \/ ClockAdvance

DateSpec == DateInit /\ [][DateNext]_vars

--------------------------------------------------------------------------
(* The triage form on its own: any form, saved from the panel or the detail view *)

StatusFields == {Absent, Given(<<"OPEN">>)}
FrequencyFields == {Absent} \cup {Given(<<FREQUENCIES[i]>>) : i \in 1..Len(FREQUENCIES)}
AnchorTypeFields == {Absent, Given(<<"CUSTOM_DATE">>)}
DateFields == {Absent, Given(<<"2025-03-01">>)}
AssigneeFields == {Absent, Given(<<"ana@example.com">>)}
IntervalFields ==
    {Absent, Given(<<"0">>), Given(<<"2">>), Given(<<"-", "1">>),
     Given(<<"1", ".", "5">>), Given(<<"1", "2">>)}

Forms ==
    [status : StatusFields, frequency : FrequencyFields, anchorType : AnchorTypeFields,
     anchorDate : DateFields, dueDate : DateFields, assignee : AssigneeFields,
     interval : IntervalFields]

TriageViews == {"panel", "detail"}

\* the ids saved: the selection of the panel, the record of the detail view
SavedIds(view) == IF view = "panel" THEN <<1, 2>> ELSE <<1>>

FormInit ==
    /\ triageSave \in [view : TriageViews, form : Forms, outcome : {NotSaved}]
    /\ IdleCodec
    /\ IdleDates
    /\ IdleView
    /\ IdleDocs
    /\ IdleController

\* Save: the submit event of the panel's form, the click of the detail view
SaveForm ==
    /\ ~triageSave.outcome.saved
    /\ IF triageSave.view = "panel"
       THEN /\ IntervalFieldAccepted(triageSave.form)
            /\ triageSave' = [triageSave EXCEPT
                   !.outcome = handleSubmit(triageSave.form, SavedIds("panel"))]
       ELSE triageSave' = [triageSave EXCEPT
               !.outcome = handleSave(triageSave.form, SavedIds("detail"))]
    /\ UNCHANGED <<codecVars, dateVars, viewVars, docVars, ctlVars>>

FormNext == SaveForm

FormSpec == FormInit /\ [][FormNext]_vars

--------------------------------------------------------------------------
(* The list controller: mount, list fetches, navigation, selection *)

Key == decoded.params

\* the pages opened: the plain list of a small service, whose records are
\* to be triaged, and page 5 of a service with MaxId + MaxFiller records
Statuses(n) == [i \in Ids |-> IF i <= n THEN "PENDING_REVIEW" ELSE "OPEN"]

Openings ==
    {[q |-> EmptyQuery, filler |-> 0, status |-> Statuses(n)] : n \in {1, MaxId}}
    \cup {[q |-> [EmptyQuery EXCEPT !.page = Given(<<"5">>)], filler |-> MaxFiller,
           status |-> Statuses(0)]}

\* the page as first rendered: the prefetch succeeded (profile and list) or
\* failed (neither); useSWR has started the fetch of the mount
InitOf(o, save) ==
    /\ query = o.q
    /\ srv = [status |-> o.status, filler |-> o.filler]
    /\ lastPatch = NotCalled
    /\ decoded = Decode(query)
    /\ IdleDates
    /\ IdleView
    /\ IdleDocs
    /\ triageSave = save
    /\ pendingNav = NoNav
    /\ cache = {}
    /\ errKeys = {}
    /\ \E ok \in BOOLEAN :
        /\ requirements = fetchInitialRequirements(srv, query, ok)
        /\ profile = ok
    /\ requirementRows = requirements.items
    /\ selectedIds = <<>>
    /\ completingId = 0
    /\ inflight = [s \in Slots |-> IF s = 1 THEN ListReq(decoded.params, FALSE, FALSE) ELSE NoReq]
    /\ toast = NoToast
    /\ lastEvent = NoEvent
    /\ used = 0

InitAt(o) == InitOf(o, NoPanel)

Init == \E o \in Openings : InitAt(o)

\* the render that follows a handler and the effects that follow the render:
\* the mirror is replaced when useSWR returns other data, refreshAndHydrate
\* (late) writes after that, the selection effects come last
Render(cacheN, dec, rowsH, writtenH, selH, late) ==
    LET data == Returned(cacheN, dec.params, requirements)
        replace == data.defined /\ data # requirements
        rowsE == IF replace THEN data.items ELSE rowsH
        rowsN == IF late.write THEN hydrate(late.latest, rowsE) ELSE rowsE
        written == writtenH \/ replace \/ (late.write /\ late.latest.defined)
    IN  /\ cache' = cacheN
        /\ requirements' = data
        /\ requirementRows' = rowsN
        /\ selectedIds' = Effects(written, rowsN, selH, dec.status)

NoLate == [write |-> FALSE, latest |-> NoData]

PanelFollows(save) ==
    triageSave' = PanelAfter(save, Len(selectedRequirements(requirementRows', selectedIds')) > 0)

SameButTheView == UNCHANGED <<codecVars, dateVars, docVars>> /\ PanelFollows(triageSave)

Same == UNCHANGED viewVars /\ SameButTheView

\* the detail view is followed and on screen; where it is not followed its
\* handlers are those of any record
OnTheView(id) ==
    detailView.view = "detail" => (detailView.left = "none" /\ detailView.id = id)

\* the refresh interval of useSWR: a revalidation of the current key,
\* deduplicated against the request in flight for it
ListFetchStartCounted(count) ==
    /\ used + count <= MaxOps
    /\ HasFree(inflight)
    /\ ~LiveFor(inflight, Key)
    /\ inflight' = [inflight EXCEPT ![FreeSlot(inflight)] = ListReq(Key, FALSE, FALSE)]
    /\ used' = used + count
    /\ lastEvent' = "other"
    /\ UNCHANGED <<pendingNav, srv, cache, errKeys, requirements, profile,
                   requirementRows, selectedIds, completingId>>
    /\ toast' = NoToast
    /\ Same

ListFetchStart == ListFetchStartCounted(1)

\* a list request settles: r is the request, accepted the cache after it
ListSettled(s, cacheN) ==
    LET r == inflight[s]
    IN  /\ Render(cacheN, decoded, requirementRows, FALSE, selectedIds,
                  [write |-> r.hydrate, latest |-> Cached(cacheN, r.key)])
        /\ completingId' = IF r.clearMarker THEN completeFinally(completingId)
                           ELSE completingId
        /\ inflight' = [inflight EXCEPT ![s] = NoReq]
        /\ UNCHANGED <<pendingNav, srv, profile, used>>
        /\ Same

ListResolveOKOf(s) ==
    LET r == inflight[s]
        data == ListResponse(srv, r.key, "cache")
    IN  /\ r.kind = "list"
        /\ ListSettled(s, IF r.live THEN Put(cache, data) ELSE cache)
        /\ errKeys' = IF r.live THEN errKeys \ {r.key} ELSE errKeys
        /\ lastEvent' = IF r.hydrate THEN "hydrateOK" ELSE "listOK"
        /\ toast' = NoToast

ListResolveOK == \E s \in Slots : ListResolveOKOf(s)

ListResolveFailWith(s, status) ==
    LET r == inflight[s]
    IN  /\ r.kind = "list"
        /\ ListSettled(s, cache)
        /\ errKeys' = IF r.live THEN errKeys \cup {r.key} ELSE errKeys
        /\ toast' = IF r.live /\ r.key = Key /\ status # 401
                    THEN Toast("error", "toasts.loadError") ELSE NoToast
        /\ lastEvent' = IF r.hydrate THEN "hydrateFail" ELSE "listFail"

ListResolveFail == \E s \in Slots, status \in {401, 500} : ListResolveFailWith(s, status)

\* useAuthedProfile delivers the profile the prefetch did not; the mount
\* effect then calls refreshAndHydrate when useSWR has no data yet
ProfileLoaded ==
    /\ ~profile
    /\ ProfileKey \notin errKeys
    /\ profile' = TRUE
    /\ IF requirements.defined
       THEN inflight' = inflight
       ELSE /\ HasFree(inflight)
            /\ inflight' = [Supersede(inflight, Key) EXCEPT
                               ![FreeSlot(inflight)] = ListReq(Key, TRUE, FALSE)]
    /\ lastEvent' = "other"
    /\ UNCHANGED <<pendingNav, srv, cache, errKeys, requirements, requirementRows,
                   selectedIds, completingId, used>>
    /\ toast' = NoToast
    /\ Same

\* the fetch of the profile fails: the effect of useAuthedProfile leaves
\* for the login page on a 401, shows a message on any other ApiError
ProfileFailedWith(failure) ==
    /\ ~profile
    /\ ProfileKey \notin errKeys
    /\ used < MaxOps
    /\ errKeys' = errKeys \cup {ProfileKey}
    /\ pendingNav' = IF failure.api /\ failure.status = 401 THEN LoginNav ELSE pendingNav
    /\ toast' = IF failure.api /\ failure.status # 401
                THEN Toast("error", "app.error") ELSE NoToast
    /\ used' = used + 1
    /\ lastEvent' = "profileFail"
    /\ UNCHANGED <<srv, cache, requirements, profile, requirementRows, selectedIds,
                   completingId, inflight>>
    /\ Same

ProfileFailed ==
    \E failure \in FailureKinds : ProfileFailedWith(failure)

\* updateQuery: the next query string goes to router.replace, the mirror and
\* the selection are emptied at once
UpdateQueryCallKeepsSelection(next) ==
    /\ used < MaxOps
    /\ lastPatch' = [called |-> TRUE, next |-> next]
    /\ pendingNav' = [pending |-> TRUE, path |-> "/requirements", q |-> updateQuery(query, next)]
    /\ Render(cache, decoded, <<>>, FALSE, selectedIds, NoLate)
    /\ used' = used + 1
    /\ lastEvent' = "updateQuery"
    /\ UNCHANGED <<query, decoded, dateVars, viewVars, docVars, formVars, srv, errKeys, profile, completingId,
                   inflight>>
    /\ toast' = NoToast

UpdateQueryCall(next) ==
    /\ used < MaxOps
    /\ lastPatch' = [called |-> TRUE, next |-> next]
    /\ pendingNav' = [pending |-> TRUE, path |-> "/requirements", q |-> updateQuery(query, next)]
    /\ Render(cache, decoded, <<>>, TRUE, <<>>, NoLate)
    /\ used' = used + 1
    /\ lastEvent' = "updateQuery"
    /\ UNCHANGED <<query, decoded, dateVars, viewVars, docVars, formVars, srv, errKeys, profile, completingId,
                   inflight>>
    /\ toast' = NoToast

\* goTo of Pagination calls onPageChange
goTo(nextPage, count) == ~(nextPage < 1 \/ nextPage > count)

\* Pagination: Previous or Next, refused by goTo outside 1..pageCount
Paginate ==
    \E nextPage \in {currentPage(requirements, decoded.page) - 1,
                     currentPage(requirements, decoded.page) + 1} :
        /\ goTo(nextPage, pageCount(requirements, requirementRows))
        /\ UpdateQueryCall(PagePatch(nextPage))

\* the filters pending in the filter menu when Apply is pressed
PendingFilters == {[due |-> <<"overdue">>, status |-> <<"triage">>]}

applyFilters ==
    \E pending \in PendingFilters :
        UpdateQueryCall(FiltersPatch(pending.due, pending.status))

clearFilters == UpdateQueryCall(FiltersPatch(<<>>, <<>>))

\* the navigation of router.replace commits: useSearchParams returns the new
\* query, useSWR revalidates the new key unless a request for it is in flight
NavCommit ==
    LET dec == Decode(pendingNav.q)
        keyN == dec.params
        start == keyN # Key /\ ~LiveFor(inflight, keyN)
    IN  /\ pendingNav.pending
        /\ pendingNav.path = "/requirements"
        /\ query' = pendingNav.q
        /\ decoded' = dec
        /\ pendingNav' = NoNav
        /\ IF start
           THEN /\ HasFree(inflight)
                /\ inflight' = [inflight EXCEPT
                                   ![FreeSlot(inflight)] = ListReq(keyN, FALSE, FALSE)]
           ELSE inflight' = inflight
        /\ Render(cache, dec, requirementRows, FALSE, selectedIds, NoLate)
        /\ lastEvent' = "other"
        /\ UNCHANGED <<lastPatch, dateVars, viewVars, docVars, formVars, srv, errKeys, profile, completingId,
                       used>>
        /\ toast' = NoToast

\* the rows of the mirror the model follows (the others stay OPEN)
Followed == {i \in 1..Len(requirementRows) : requirementRows[i].id \in Ids}

SelectionStep(sel) ==
    /\ Render(cache, decoded, requirementRows, FALSE, sel, NoLate)
    /\ lastEvent' = "other"
    /\ UNCHANGED <<pendingNav, srv, errKeys, profile, completingId, inflight,
                   used>>
    /\ toast' = NoToast
    /\ Same

\* the selection toggleSelection(requirement, checked) leaves
toggledWhateverTheStatus(prev, requirement, checked) ==
    IF checked
    THEN IF Includes(prev, requirement.id) THEN prev ELSE Append(prev, requirement.id)
    ELSE SelectSeq(prev, LAMBDA id : id # requirement.id)

toggled(prev, requirement, checked) ==
    IF requirement.status # "PENDING_REVIEW" THEN prev
    ELSE IF checked
    THEN IF Includes(prev, requirement.id) THEN prev ELSE Append(prev, requirement.id)
    ELSE SelectSeq(prev, LAMBDA id : id # requirement.id)

toggleSelectionOf(requirement, checked) ==
    SelectionStep(toggled(selectedIds, requirement, checked))

toggleSelection ==
    \E i \in Followed, checked \in BOOLEAN :
        toggleSelectionOf(requirementRows[i], checked)

triageIdsOnPage(rows) ==
    LET triage == SelectSeq(rows, LAMBDA item : item.status = "PENDING_REVIEW")
    IN  [i \in 1..Len(triage) |-> triage[i].id]

\* the selection toggleSelectAll(checked) leaves; Array.from(new Set(...))
\* keeps the first occurrence of each id, in order
toggledAllOfThePageOnly(prev, rows, checked) ==
    LET ids == triageIdsOnPage(rows)
    IN  IF Len(ids) = 0 THEN prev
        ELSE IF checked THEN Dedupe(ids)
        ELSE <<>>

toggledAll(prev, rows, checked) ==
    LET ids == triageIdsOnPage(rows)
    IN  IF Len(ids) = 0 THEN prev
        ELSE IF checked THEN Dedupe(prev \o ids)
        ELSE SelectSeq(prev, LAMBDA id : ~Includes(ids, id))

toggleSelectAll ==
    \E checked \in BOOLEAN :
        SelectionStep(toggledAll(selectedIds, requirementRows, checked))

hasSelection == Len(selectedRequirements(requirementRows, selectedIds)) > 0

selectAllStateOfTheWholeSelection(rows, selected) ==
    LET idsOnPage == triageIdsOnPage(rows)
    IN  IF Len(idsOnPage) = 0
        THEN [hasSelectable |-> FALSE, allSelected |-> FALSE, someSelected |-> FALSE]
        ELSE [hasSelectable |-> TRUE,
              allSelected |-> \A i \in 1..Len(idsOnPage) : Includes(selected, idsOnPage[i]),
              someSelected |-> Len(selected) > 0]

\* the state of the checkbox of the header
selectAllState(rows, selected) ==
    LET idsOnPage == triageIdsOnPage(rows)
    IN  IF Len(idsOnPage) = 0
        THEN [hasSelectable |-> FALSE, allSelected |-> FALSE, someSelected |-> FALSE]
        ELSE [hasSelectable |-> TRUE,
              allSelected |-> \A i \in 1..Len(idsOnPage) : Includes(selected, idsOnPage[i]),
              someSelected |-> \E i \in 1..Len(idsOnPage) : Includes(selected, idsOnPage[i])]

\* Cancel of the triage panel
CancelSelection ==
    /\ hasSelection
    /\ SelectionStep(<<>>)

\* somebody else triages a record on the service
ServiceChange ==
    \E i \in Ids :
        /\ used < MaxOps
        /\ srv.status[i] = "PENDING_REVIEW"
        /\ srv' = [srv EXCEPT !.status[i] = "OPEN"]
        /\ used' = used + 1
        /\ lastEvent' = "other"
        /\ UNCHANGED <<pendingNav, cache, errKeys, requirements, profile,
                       requirementRows, selectedIds, completingId, inflight>>
        /\ toast' = NoToast
        /\ Same

--------------------------------------------------------------------------
(* The select-all checkbox on its own: any page, any selection *)

PageIds == 1..MaxPageId

\* the sequences of distinct ids
DistinctSeqs(ids) ==
    {sq \in UNION {[1..n -> ids] : n \in 0..Cardinality(ids)} :
        \A i, j \in 1..Len(sq) : i # j => sq[i] # sq[j]}

\* a page of the mirror: records of distinct ids, to be triaged or open
Pages ==
    UNION {{[i \in 1..Len(sq) |-> Row(sq[i], st[i])] :
              st \in [1..Len(sq) -> {"PENDING_REVIEW", "OPEN"}]} :
           sq \in DistinctSeqs(PageIds)}

SelectAllInit ==
    /\ IdleCodec
    /\ IdleDates
    /\ IdleView
    /\ IdleDocs
    /\ IdleForm
    /\ pendingNav = NoNav
    /\ srv = [status |-> [i \in Ids |-> "OPEN"], filler |-> 0]
    /\ cache = {}
    /\ errKeys = {}
    /\ requirements = NoData
    /\ profile = FALSE
    /\ requirementRows \in Pages
    /\ selectedIds \in DistinctSeqs(PageIds)
    /\ completingId = 0
    /\ inflight = [s \in Slots |-> NoReq]
    /\ toast = NoToast
    /\ lastEvent = NoEvent
    /\ used = 0

\* setSelectedIds(prev => ...) of toggleSelectAll(checked), nothing else
toggleSelectAllOf(checked) ==
    /\ selectedIds' = toggledAll(selectedIds, requirementRows, checked)
    /\ lastEvent' = IF checked THEN "selectAll" ELSE "selectNone"
    /\ UNCHANGED <<codecVars, dateVars, viewVars, docVars, formVars, pendingNav, srv, cache, errKeys,
                   requirements, profile, requirementRows, completingId, inflight,
                   toast, used>>

SelectAllNext == \E checked \in BOOLEAN : toggleSelectAllOf(checked)

SelectAllSpec == SelectAllInit /\ [][SelectAllNext]_vars

--------------------------------------------------------------------------
(* The list controller: the mutation workflows *)

\* window.prompt: null when cancelled, the text of the field otherwise
PromptInputs ==
    {Absent, Given(<<>>), Given(<<Blank, Blank>>),
     Given(<<Blank, Blank, "not", Blank, "applicable", Blank, Blank>>)}

\* const reason = reasonInput.trim()
archiveReasonAsTyped(reasonInput) == reasonInput.value

archiveReason(reasonInput) == Trim(reasonInput.value)

\* the bodies { reason } of the archive calls of the ids
Reasons(ids, reason) == [i \in ids |-> reason]
NoReasons == <<>>

\* a handler that returns without a call: unseen, or seen by its toast or the
\* name it leaves, and then counted among the operations
ReturnsAsWithin(budget, name, t) ==
    /\ toast' = t
    /\ lastEvent' = name
    /\ IF t = NoToast /\ name = "other"
       THEN used' = used
       ELSE used < budget /\ used' = used + 1
    /\ UNCHANGED <<pendingNav, srv, cache, errKeys, requirements, profile,
                   requirementRows, selectedIds, completingId, inflight>>
    /\ Same

ReturnsAs(name, t) == ReturnsAsWithin(MaxOps, name, t)

Returns(t) == ReturnsAs("other", t)

\* a handler that starts its call
CallsWithin(budget, kind, ids, panel, marker, reasons) ==
    /\ used < budget
    /\ HasFree(inflight)
    /\ inflight' = [inflight EXCEPT ![FreeSlot(inflight)] = CallReq(kind, ids, panel, reasons)]
    /\ completingId' = marker
    /\ used' = used + 1
    /\ lastEvent' = "other"
    /\ UNCHANGED <<pendingNav, srv, cache, errKeys, requirements, profile,
                   requirementRows, selectedIds>>
    /\ toast' = NoToast
    /\ Same

Calls(kind, ids, panel, marker, reasons) ==
    CallsWithin(MaxOps, kind, ids, panel, marker, reasons)

\* the try block after the call resolved: the toast, the writes to the mirror
\* and the selection, then refreshAndHydrate, awaited in slot s
Succeeds(s, name, srvN, t, rowsH, writtenH, selH, clear) ==
    /\ srv' = srvN
    /\ toast' = t
    /\ Render(cache, decoded, rowsH, writtenH, selH, NoLate)
    /\ inflight' = [Supersede(inflight, Key) EXCEPT ![s] = ListReq(Key, TRUE, clear)]
    /\ lastEvent' = name
    /\ UNCHANGED <<pendingNav, errKeys, profile, completingId, used>>
    /\ Same

\* the catch block: the toast, and the finally of handleComplete
FailsWriting(s, name, srvN, t, marker, save, view) ==
    /\ srv' = srvN
    /\ toast' = t
    /\ completingId' = marker
    /\ inflight' = [inflight EXCEPT ![s] = NoReq]
    /\ lastEvent' = name
    /\ UNCHANGED <<pendingNav, cache, errKeys, requirements, profile,
                   requirementRows, selectedIds, used>>
    /\ UNCHANGED <<codecVars, dateVars, docVars>>
    /\ detailView' = view
    /\ PanelFollows(save)

FailsLeaving(s, name, srvN, t, marker, save) ==
    FailsWriting(s, name, srvN, t, marker, save, detailView)

Fails(s, name, srvN, t, marker) == FailsLeaving(s, name, srvN, t, marker, triageSave)

hasRetentionHold(item) == item.archive_state = "archived" \/ item.status = "ARCHIVED"

TheId(r) == CHOOSE i \in r.ids : TRUE

\* the early return of handleComplete
completeRefusedWhenDone(requirement) == requirement.status = "DONE"

completeRefused(requirement) ==
    requirement.status = "DONE" \/ requirement.status = "PENDING_REVIEW"

handleCompleteOfWithin(budget, requirement) ==
    IF completeRefused(requirement)
    THEN ReturnsAsWithin(budget, "completeRefused", NoToast)
    ELSE CallsWithin(budget, "complete", {requirement.id}, FALSE, requirement.id,
                     NoReasons)

handleCompleteOf(requirement) == handleCompleteOfWithin(MaxOps, requirement)

\* the Complete button of a row (disabled for the row being completed and
\* for a row under retention hold)
handleCompleteWithin(budget) ==
    \E i \in Followed :
        LET requirement == requirementRows[i]
        IN  /\ completingId # requirement.id
            /\ ~hasRetentionHold(requirement)
            /\ handleCompleteOfWithin(budget, requirement)

handleComplete == handleCompleteWithin(MaxOps)

CompleteOK ==
    \E s \in Slots :
        LET r == inflight[s]
            updated == Row(TheId(r), "DONE")
        IN  /\ r.kind = "complete"
            /\ Succeeds(s, "completeOK", [srv EXCEPT !.status[updated.id] = "DONE"],
                        Toast("success", "requirements.completeSuccess"),
                        ReplaceRow(requirementRows, updated), TRUE, selectedIds, TRUE)

CompleteFailWith(s, failure) ==
    /\ inflight[s].kind = "complete"
    /\ Fails(s, "completeFail", srv,
             Toast("error", CatchMessage(failure, "requirements.completeError")),
             completeFinally(completingId))

CompleteFail == \E s \in Slots, failure \in FailureKinds : CompleteFailWith(s, failure)

archiveRequirementOf(requirement, reasonInput) ==
    IF hasRetentionHold(requirement) \/ ~reasonInput.present
    THEN Returns(NoToast)
    ELSE LET reason == archiveReason(reasonInput)
         IN  IF reason = <<>>
             THEN Returns(Toast("error", "requirements.detail.archiveReasonRequired"))
             ELSE Calls("archive", {requirement.id}, FALSE, completingId,
                        Reasons({requirement.id}, reason))

\* the Archive button of a row that is not to be triaged
archiveRequirement ==
    \E i \in Followed, reasonInput \in PromptInputs :
        /\ requirementRows[i].status # "PENDING_REVIEW"
        /\ archiveRequirementOf(requirementRows[i], reasonInput)

ArchiveOK ==
    \E s \in Slots :
        LET r == inflight[s]
            updated == Row(TheId(r), "ARCHIVED")
        IN  /\ r.kind = "archive"
            /\ Succeeds(s, "archiveOK", [srv EXCEPT !.status[updated.id] = "ARCHIVED"],
                        Toast("success", "requirements.detail.archived"),
                        ReplaceRow(requirementRows, updated), TRUE,
                        SelectSeq(selectedIds, LAMBDA id : id # updated.id), FALSE)

ArchiveFailWith(s, failure) ==
    /\ inflight[s].kind = "archive"
    /\ Fails(s, "archiveFail", srv,
             Toast("error", CatchMessage(failure, "requirements.detail.archiveError")),
             completingId)

ArchiveFail == \E s \in Slots, failure \in FailureKinds : ArchiveFailWith(s, failure)

RowIds(rows) == {rows[i].id : i \in 1..Len(rows)}

\* the triage panel disables Save and Dismiss while a call it started is
\* in flight
PanelBusy == \E s \in Slots : inflight[s].panel

\* window.confirm, then window.prompt when confirmed
Dialogs ==
    {[confirmed |-> FALSE, input |-> Absent]}
    \cup {[confirmed |-> TRUE, input |-> i] : i \in PromptInputs}

\* t("triage.dismissReason")
DefaultDismissReason == <<"Not", Blank, "applicable">>

\* dismissRequirementsList(requirementsToDismiss, { confirm, reason })
dismissRequirementsListOf(ids, panel, confirm, providedReason, dialog) ==
    LET given == IF providedReason.present THEN providedReason.value
                 ELSE DefaultDismissReason
    IN  IF ids = {} THEN Returns(NoToast)
        ELSE IF ~confirm
        THEN Calls("dismiss", ids, panel, completingId, Reasons(ids, given))
        ELSE IF ~dialog.confirmed \/ ~dialog.input.present
        THEN Returns(NoToast)
        ELSE IF archiveReason(dialog.input) = <<>>
        THEN Returns(Toast("error", "requirements.detail.archiveReasonRequired"))
        ELSE Calls("dismiss", ids, panel, completingId,
                   Reasons(ids, archiveReason(dialog.input)))

\* the Archive button of a row to be triaged: handleDismiss([record])
dismissRequirementsList ==
    \E i \in Followed, dialog \in Dialogs :
        /\ requirementRows[i].status = "PENDING_REVIEW"
        /\ dismissRequirementsListOf({requirementRows[i].id}, FALSE, TRUE, Absent, dialog)

\* Dismiss of the triage panel: its own dialogs, then onDismiss(selected,
\* { reason }), which is dismissRequirementsList(reqs, { confirm: false, reason })
handleDismissClickOf(ids, dialog) ==
    IF ~dialog.confirmed \/ ~dialog.input.present
    THEN Returns(NoToast)
    ELSE IF archiveReason(dialog.input) = <<>>
    THEN Returns(Toast("error", "requirements.detail.archiveReasonRequired"))
    ELSE dismissRequirementsListOf(ids, TRUE, FALSE,
                                   Given(archiveReason(dialog.input)), dialog)

handleDismissClick ==
    /\ hasSelection
    /\ ~PanelBusy
    /\ \E dialog \in Dialogs :
        handleDismissClickOf(RowIds(selectedRequirements(requirementRows, selectedIds)),
                             dialog)

\* Archive of the detail view of a record, open next to the list
\* isArchiving: set before the call, cleared by the finally after the GET
DetailBusy ==
    \E s \in Slots : inflight[s].kind \in {"detailArchive", "detailArchiveSync"}

\* isRestoring
RestoreBusy ==
    \E s \in Slots : inflight[s].kind \in {"detailRestore", "detailRestoreSync"}

handleArchiveOf(id, reasonInput) ==
    IF ~reasonInput.present
    THEN Returns(NoToast)
    ELSE LET reason == archiveReason(reasonInput)
         IN  IF reason = <<>>
             THEN Returns(Toast("error", "requirements.detail.archiveReasonRequired"))
             ELSE Calls("detailArchive", {id}, FALSE, completingId, Reasons({id}, reason))

handleArchive ==
    \E id \in Ids, reasonInput \in PromptInputs :
        /\ OnTheView(id)
        /\ srv.status[id] # "ARCHIVED"
        /\ ~DetailBusy
        /\ handleArchiveOf(id, reasonInput)

Archived(s, ids) ==
    [s EXCEPT !.status = [i \in Ids |-> IF i \in ids THEN "ARCHIVED" ELSE s.status[i]]]

\* setSelectedIds(prev => prev.filter(id => !requirementsToDismiss.some(...)))
dismissedSelectionCleared(prev, ids) == <<>>

dismissedSelection(prev, ids) == SelectSeq(prev, LAMBDA id : id \notin ids)

\* one archive call of a bulk dismiss resolves; Promise.all resolves with the last
DismissCallOK ==
    \E s \in Slots :
        LET r == inflight[s]
        IN  /\ r.kind = "dismiss"
            /\ \E i \in r.ids \ r.done :
                IF r.done \cup {i} = r.ids
                THEN Succeeds(s, "dismissOK", Archived(srv, {i}),
                              Toast("success", IF Cardinality(r.ids) = 1
                                               THEN "triage.dismissed"
                                               ELSE "triage.dismissedMany"),
                              requirementRows, FALSE,
                              dismissedSelection(selectedIds, r.ids), FALSE)
                ELSE /\ srv' = Archived(srv, {i})
                     /\ inflight' = [inflight EXCEPT ![s].done = @ \cup {i}]
                     /\ lastEvent' = "other"
                     /\ UNCHANGED <<pendingNav, cache, errKeys, requirements, profile,
                                    requirementRows, selectedIds, completingId, used>>
                     /\ toast' = NoToast
                     /\ Same

\* one archive call of a bulk dismiss is rejected and Promise.all with it;
\* the calls still in flight are answered by the service all the same
DismissFailWithDropsArchived(s, failure) ==
    LET r == inflight[s]
    IN  /\ r.kind = "dismiss"
        /\ \E i \in r.ids \ r.done :
            \E others \in SUBSET (r.ids \ (r.done \cup {i})) :
                /\ srv' = Archived(srv, others)
                /\ toast' = Toast("error", CatchMessage(failure, "triage.error"))
                /\ selectedIds' = SelectSeq(selectedIds,
                                            LAMBDA id : id \notin r.done \cup others)
                /\ inflight' = [inflight EXCEPT ![s] = NoReq]
                /\ lastEvent' = "dismissFail"
                /\ UNCHANGED <<pendingNav, cache, errKeys, requirements, profile,
                               requirementRows, completingId, used>>
                /\ Same

DismissFailWith(s, failure) ==
    LET r == inflight[s]
    IN  /\ r.kind = "dismiss"
        /\ \E i \in r.ids \ r.done :
            \E others \in SUBSET (r.ids \ (r.done \cup {i})) :
                Fails(s, "dismissFail", Archived(srv, others),
                      Toast("error", CatchMessage(failure, "triage.error")),
                      completingId)

DismissFail == \E s \in Slots, failure \in FailureKinds : DismissFailWith(s, failure)

\* Restore of the detail view of an archived record: window.confirm first
handleRestoreOf(id, confirmed) ==
    IF ~confirmed
    THEN Returns(NoToast)
    ELSE Calls("detailRestore", {id}, FALSE, completingId, NoReasons)

handleRestore ==
    \E id \in Ids, confirmed \in BOOLEAN :
        /\ OnTheView(id)
        /\ srv.status[id] = "ARCHIVED"
        /\ ~RestoreBusy
        /\ handleRestoreOf(id, confirmed)

\* the service takes a record out of the archive
Restored(s, ids) ==
    [s EXCEPT !.status = [i \in Ids |-> IF i \in ids THEN "OPEN" ELSE s.status[i]]]

DetailPostKinds == {"detailArchive", "detailRestore"}
DetailSyncKinds == {"detailArchiveSync", "detailRestoreSync"}

\* attributes.archive of a record as the service holds it: the reason of the
\* call, who asked and when
ArchiveOnService(status, reason) ==
    IF status = "ARCHIVED"
    THEN [state |-> "archived", reason |-> reason, requested_at |-> "at",
          requested_by |-> "by"]
    ELSE NoArchive

\* GET /requirements/{id}: the record of the detail view on the service
RequirementOnService(remote, status, reason) ==
    [remote EXCEPT !.status = Given(<<status>>),
                   !.archive_state = IF status = "ARCHIVED" THEN "archived" ELSE "null",
                   !.archive = ArchiveOnService(status, reason)]

\* the response of the POST: the record, with or without what the service
\* computes (requested_by, requested_at)
PostResponses(full) ==
    {full, [full EXCEPT !.archive.requested_at = "none", !.archive.requested_by = "none"]}

\* the service holds the record
Stored(d, full) == IF d.view = "none" THEN d ELSE [d EXCEPT !.remote = full]

\* router.push("/requirements")
LeftForTheList(d) == IF d.view = "none" THEN d ELSE [d EXCEPT !.left = "list"]

\* the POST of handleArchive or handleRestore is answered: hydrateFromResponse
\* and the GET of syncRequirementFromServer on success, the catch otherwise
DetailPostedWith(s, ok, failure) ==
    LET r == inflight[s]
        id == TheId(r)
        status == IF r.kind = "detailArchive" THEN "ARCHIVED" ELSE "OPEN"
        reason == IF r.kind = "detailArchive" THEN r.reasons[id] ELSE <<>>
        full == RequirementOnService(detailView.remote, status, reason)
    IN  /\ r.kind \in DetailPostKinds
        /\ IF ok
           THEN /\ srv' = IF r.kind = "detailArchive" THEN Archived(srv, r.ids)
                           ELSE Restored(srv, r.ids)
                /\ inflight' = [inflight EXCEPT ![s].kind =
                                   IF r.kind = "detailArchive" THEN "detailArchiveSync"
                                   ELSE "detailRestoreSync"]
                /\ toast' = NoToast
                /\ lastEvent' = "detailPosted"
                /\ UNCHANGED <<pendingNav, cache, errKeys, requirements, profile,
                               requirementRows, selectedIds, completingId, used>>
                /\ \E updated \in PostResponses(full) :
                      detailView' = hydrateFromResponse(Stored(detailView, full), updated)
                /\ SameButTheView
           ELSE Fails(s, "detailFail", srv,
                      Toast("error", CatchMessage(failure, "requirements.detail.archiveError")),
                      completingId)

DetailPosted ==
    \E s \in Slots, ok \in BOOLEAN, failure \in FailureKinds :
        DetailPostedWith(s, ok, failure)

\* the GET of syncRequirementFromServer is answered, inside the same try:
\* hydrateFromResponse(latest), the success toast and
\* router.push("/requirements") when it succeeded, the catch otherwise
DetailSyncedWithKeepingThePost(s, ok, failure) ==
    LET r == inflight[s]
    IN  /\ r.kind \in DetailSyncKinds
        /\ IF ok
           THEN FailsWriting(s, "detailToList", srv,
                             Toast("success", IF r.kind = "detailArchiveSync"
                                              THEN "requirements.detail.archived"
                                              ELSE "requirements.detail.restored"),
                             completingId, triageSave, LeftForTheList(detailView))
           ELSE Fails(s, "detailFail", srv,
                      Toast("error", CatchMessage(failure, "requirements.detail.archiveError")),
                      completingId)

DetailSyncedWith(s, ok, failure) ==
    LET r == inflight[s]
        latest == detailView.remote
    IN  /\ r.kind \in DetailSyncKinds
        /\ IF ok
           THEN FailsWriting(s, "detailToList", srv,
                             Toast("success", IF r.kind = "detailArchiveSync"
                                              THEN "requirements.detail.archived"
                                              ELSE "requirements.detail.restored"),
                             completingId, triageSave,
                             LeftForTheList(hydrateFromResponse(detailView, latest)))
           ELSE Fails(s, "detailFail", srv,
                      Toast("error", CatchMessage(failure, "requirements.detail.archiveError")),
                      completingId)

DetailSynced ==
    \E s \in Slots, ok \in BOOLEAN, failure \in FailureKinds :
        DetailSyncedWith(s, ok, failure)

\* the forms saved from the panel of the list: one for each refusal, one
\* the browser holds back, two that are accepted
PanelForm(status, frequency, dueDate, interval) ==
    [EmptyForm EXCEPT !.status = status, !.frequency = frequency,
                      !.dueDate = dueDate, !.interval = interval]

PanelForms ==
    LET open == Given(<<"OPEN">>)
        due == Given(<<"2025-03-01">>)
        weeks == Given(<<"EVERY_N_WEEKS">>)
    IN  {PanelForm(Absent, weeks, due, Given(<<"2">>)),
         PanelForm(open, Absent, due, Absent),
         PanelForm(open, Given(<<"MONTHLY">>), Absent, Absent),
         PanelForm(open, weeks, due, Absent),
         PanelForm(open, weeks, due, Given(<<"1", ".", "5">>)),
         PanelForm(open, weeks, due, Given(<<"2">>)),
         PanelForm(open, Given(<<"ONE_TIME">>), Absent, Absent)}

\* handleSubmit of the panel, then onSubmit, which is handleTriageSubmit; the
\* body of the call is panelPayload(form, ids)
handleSubmitOf(form) ==
    IF handleSubmitRefusal(form) # "none"
    THEN Returns(Toast("error", handleSubmitRefusal(form)))
    ELSE Calls("triage", RowIds(selectedRequirements(requirementRows, selectedIds)),
               TRUE, completingId, NoReasons)

\* Save of the triage panel
handleTriageSubmit ==
    /\ hasSelection
    /\ ~PanelBusy
    /\ \E form \in IF triageSave.view = "panel" THEN {triageSave.form} ELSE PanelForms :
        /\ IntervalFieldAccepted(form)
        /\ handleSubmitOf(form)

\* handleChange of the panel, field after field until the form reads as given
handleChangeTo(form) ==
    /\ triageSave.view = "panel"
    /\ triageSave.form # form
    /\ triageSave' = [triageSave EXCEPT !.form = form]
    /\ toast' = NoToast
    /\ lastEvent' = "other"
    /\ UNCHANGED <<codecVars, dateVars, viewVars, docVars, pendingNav, srv, cache, errKeys, requirements,
                   profile, requirementRows, selectedIds, completingId, inflight, used>>

handleChange == \E form \in PanelForms \cup {InitialPanelForm} : handleChangeTo(form)

\* await onSubmit(payload) returned, setForm({ status: "OPEN" }) follows
setFormAfterSubmit(save) ==
    IF save.view = "panel" THEN [save EXCEPT !.form = InitialPanelForm] ELSE save

Triaged(s, ids) ==
    [s EXCEPT !.status = [i \in Ids |-> IF i \in ids THEN "OPEN" ELSE s.status[i]]]

\* setSelectedIds([])
triagedSelectionKept(prev) == prev

triagedSelection(prev) == <<>>

TriageOK ==
    \E s \in Slots :
        LET r == inflight[s]
        IN  /\ r.kind = "triage"
            /\ Succeeds(s, "triageOK", Triaged(srv, r.ids),
                        Toast("success", "triage.success"),
                        requirementRows, FALSE, triagedSelection(selectedIds), FALSE)

\* the catch of handleTriageSubmit shows its own message whatever the error
\* and swallows it: onSubmit resolves and handleSubmit of the panel goes on
TriageFailWith(s, failure) ==
    /\ inflight[s].kind = "triage"
    /\ FailsLeaving(s, "triageFail", srv, Toast("error", "triage.error"), completingId,
                    setFormAfterSubmit(triageSave))

TriageFail == \E s \in Slots, failure \in FailureKinds : TriageFailWith(s, failure)

Next ==
    \/ ListFetchStart
    \/ ListResolveOK
    \/ ListResolveFail
    \/ ProfileLoaded
    \/ ProfileFailed
    \/ Paginate
    \/ applyFilters
    \/ clearFilters
    \/ NavCommit
    \/ toggleSelection
    \/ toggleSelectAll
    \/ CancelSelection
    \/ ServiceChange
    \/ handleComplete
    \/ CompleteOK
    \/ CompleteFail
    \/ archiveRequirement
    \/ ArchiveOK
    \/ ArchiveFail
    \/ dismissRequirementsList
    \/ handleDismissClick
    \/ handleArchive
    \/ DetailPosted
    \/ DetailSynced
    \/ DismissCallOK
    \/ DismissFail
    \/ handleTriageSubmit
    \/ TriageOK
    \/ TriageFail

Spec == Init /\ [][Next]_vars

--------------------------------------------------------------------------
(* The detail view on its own: a record archived or not, Archive and Restore *)

\* the view as the server component rendered it: the record of one id, active
\* or archived
DetailInit ==
    /\ IdleCodec
    /\ IdleDates
    /\ IdleDocs
    /\ IdleForm
    /\ pendingNav = NoNav
    /\ srv \in {[status |-> st, filler |-> 0] : st \in [Ids -> {"OPEN", "ARCHIVED"}]}
    /\ \E id \in Ids :
        detailView = OpenedView(id, RequirementOnService(NoRequirement, srv.status[id],
                                                         <<"old">>))
    /\ cache = {}
    /\ errKeys = {}
    /\ requirements = NoData
    /\ profile = TRUE
    /\ requirementRows = <<>>
    /\ selectedIds = <<>>
    /\ completingId = 0
    /\ inflight = [s \in Slots |-> NoReq]
    /\ toast = NoToast
    /\ lastEvent = NoEvent
    /\ used = 0

DetailNext ==
    \/ handleArchive
    \/ handleRestore
    \/ DetailPosted
    \/ DetailSynced

DetailSpec == DetailInit /\ [][DetailNext]_vars

--------------------------------------------------------------------------
(* The form of the detail view: edits, Save, Back, the unload of the page *)

EditSame == UNCHANGED <<codecVars, dateVars, docVars, formVars, ctlVars>>

\* the records the view is opened with
EditRecords ==
    {[NoRequirement EXCEPT !.status = Given(<<"PENDING_REVIEW">>)],
     [NoRequirement EXCEPT !.status = Given(<<"OPEN">>),
                           !.due_date = Given(<<"2025-03-01", "T12:00:00.000Z">>)],
     [NoRequirement EXCEPT !.frequency = Given(<<"MONTHLY">>)]}

EditInit ==
    /\ IdleCodec
    /\ IdleDates
    /\ IdleDocs
    /\ IdleForm
    /\ IdleController
    /\ \E requirement \in EditRecords : detailView = OpenedView(1, requirement)

\* what the inputs of the form offer
FieldValues(field) ==
    CASE field = "status" -> {Given(<<"OPEN">>), Given(<<"PENDING_REVIEW">>)}
      [] field = "frequency" -> {Absent, Given(<<"EVERY_N_WEEKS">>)}
      [] field = "anchorType" -> {Absent, Given(<<"CALENDAR">>)}
      [] field = "interval" -> {Absent, Given(<<"2">>)}
      [] field = "assignee" -> {Absent, Given(<<"a">>)}
      [] OTHER -> {Absent, Given(<<"2025-03-01">>)}

DetailFields ==
    {"frequency", "anchorType", "anchorDate", "interval", "assignee", "status", "dueDate"}

\* the input of the field is rendered and enabled
FieldShown(d, field) ==
    CASE field = "status" -> d.archive.state # "archived"
      [] field = "dueDate" -> TRUE
      [] field = "interval" ->
            /\ d.form.status = Given(<<"PENDING_REVIEW">>)
            /\ ~Falsy(d.form.frequency) /\ StartsWithEveryN(Chosen(d.form.frequency))
      [] field = "anchorDate" ->
            /\ d.form.status = Given(<<"PENDING_REVIEW">>)
            /\ ~Falsy(d.form.anchorType)
            /\ d.form.anchorType # Given(<<"FIRST_COMPLETION">>)
      [] OTHER -> d.form.status = Given(<<"PENDING_REVIEW">>)

\* onChange of an input: setStatus, setDueDate, setFrequency, ...
setField ==
    /\ detailView.left = "none"
    /\ \E field \in DetailFields :
        /\ FieldShown(detailView, field)
        /\ \E value \in FieldValues(field) \ {detailView.form[field]} :
            detailView' = [detailView EXCEPT !.form[field] = value, !.asked = FALSE,
                                             !.blocked = FALSE, !.toast = NoToast,
                                             !.event = "edit"]
    /\ EditSame

\* `${dueDate}T12:00:00Z` and `${anchorDate}T00:00:00Z` as the service keeps
\* them
Timestamp(field, time) == IF Falsy(field) THEN Absent ELSE Given(Append(field.value, time))

\* a key of the body replaces the value of the service, a key the body omits
\* leaves it
Sent(value, kept) == IF Falsy(value) THEN kept ELSE value

\* the record of the service once it applied the body of the call
Saved(d, request) ==
    IF request = "bulk"
    THEN [d.remote EXCEPT
            !.status = d.form.status,
            !.due_date = Sent(Timestamp(d.form.dueDate, "T12:00:00.000Z"), @),
            !.frequency = Sent(d.form.frequency, @),
            !.anchor_type = Sent(d.form.anchorType, @),
            !.anchor_date = Sent(Timestamp(d.form.anchorDate, "T00:00:00.000Z"), @),
            !.anchor_interval =
                IF StartsWithEveryN(Chosen(d.form.frequency))
                THEN Sent(d.form.interval, @) ELSE @,
            !.assignee = Sent(d.form.assignee, @)]
    ELSE [d.remote EXCEPT
            !.status = IF d.form.status # d.baseline.status THEN d.form.status ELSE @,
            !.due_date = IF d.form.dueDate # d.baseline.dueDate
                         THEN Timestamp(d.form.dueDate, "T12:00:00.000Z") ELSE @]

\* handleSave up to its call
handleSaveOf(d) ==
    IF ~isDirty(d)
    THEN [d EXCEPT !.toast = Toast("info", "requirements.detail.noChanges"),
                   !.event = "saveNoChanges"]
    ELSE IF isTriageMode(d)
    THEN IF handleSaveRefusal(d.form) # "none"
         THEN [d EXCEPT !.toast = Toast("error", handleSaveRefusal(d.form)),
                        !.event = "saveRefused"]
         ELSE [d EXCEPT !.request = "bulk", !.applied = Saved(d, "bulk"),
                        !.saves = @ + 1, !.toast = NoToast, !.event = "saveCalled"]
    ELSE [d EXCEPT !.request = "patch", !.applied = Saved(d, "patch"),
                   !.saves = @ + 1, !.toast = NoToast, !.event = "saveCalled"]

handleSaveClicked ==
    /\ detailView.left = "none"
    /\ detailView.request = "none"
    /\ detailView.saves < MaxSaves \/ ~isDirty(detailView)
    /\ detailView' = [handleSaveOf(detailView) EXCEPT !.asked = FALSE, !.blocked = FALSE]
    /\ EditSame

SaveOutcomes == {"record", "noItems", "failed"}

\* the call of handleSave is answered: hydrateFromResponse of the record of
\* the response, or the GET of syncRequirementFromServer when the bulk
\* response lists no record; the success toast and router.push; the catch
SaveSettledWith(outcome, failure) ==
    LET d == detailView
        stored == [d EXCEPT !.remote = d.applied, !.applied = NoRequirement,
                            !.asked = FALSE, !.blocked = FALSE]
    IN  /\ d.request \in {"bulk", "patch"}
        /\ outcome = "noItems" => d.request = "bulk"
        /\ detailView' =
              IF outcome = "failed"
              THEN [d EXCEPT !.request = "none", !.applied = NoRequirement,
                             !.asked = FALSE, !.blocked = FALSE, !.event = "saveFailed",
                             !.toast = Toast("error", CatchMessage(failure,
                                                 "requirements.detail.saveError"))]
              ELSE IF outcome = "noItems"
              THEN [stored EXCEPT !.request = "sync", !.toast = NoToast,
                                  !.event = "saveSync"]
              ELSE [hydrateFromResponse(stored, stored.remote) EXCEPT
                       !.request = "none", !.left = "list", !.event = "saved",
                       !.toast = Toast("success", IF d.request = "bulk"
                                                  THEN "requirements.detail.triageSuccess"
                                                  ELSE "requirements.detail.saveSuccess")]
        /\ EditSame

SaveSettled ==
    \E outcome \in SaveOutcomes, failure \in FailureKinds :
        SaveSettledWith(outcome, failure)

\* the GET of syncRequirementFromServer inside handleSave is answered
SaveSyncedWith(ok, failure) ==
    LET d == detailView
    IN  /\ d.request = "sync"
        /\ detailView' =
              IF ok
              THEN [hydrateFromResponse(d, d.remote) EXCEPT
                       !.request = "none", !.left = "list", !.event = "saved",
                       !.asked = FALSE, !.blocked = FALSE,
                       !.toast = Toast("success", "requirements.detail.triageSuccess")]
              ELSE [d EXCEPT !.request = "none", !.asked = FALSE, !.blocked = FALSE,
                             !.event = "saveFailed",
                             !.toast = Toast("error", CatchMessage(failure,
                                                 "requirements.detail.saveError"))]
        /\ EditSame

SaveSynced ==
    \E ok \in BOOLEAN, failure \in FailureKinds : SaveSyncedWith(ok, failure)

handleBackWhateverTheAnswer(d, confirmed) ==
    IF isDirty(d)
    THEN [d EXCEPT !.asked = TRUE, !.blocked = FALSE, !.left = "back",
                   !.event = "back",
                   !.toast = Toast("warning", "requirements.detail.changesDiscarded")]
    ELSE [d EXCEPT !.asked = FALSE, !.blocked = FALSE, !.left = "back",
                   !.toast = NoToast, !.event = "back"]

\* handleBack: window.confirm when the form is dirty, router.back()
handleBackOf(d, confirmed) ==
    IF isDirty(d)
    THEN IF ~confirmed
         THEN [d EXCEPT !.asked = TRUE, !.blocked = FALSE, !.event = "backRefused",
                        !.toast = Toast("info", "requirements.detail.keepEditing")]
         ELSE [d EXCEPT !.asked = TRUE, !.blocked = FALSE, !.left = "back",
                        !.event = "back",
                        !.toast = Toast("warning", "requirements.detail.changesDiscarded")]
    ELSE [d EXCEPT !.asked = FALSE, !.blocked = FALSE, !.left = "back",
                   !.toast = NoToast, !.event = "back"]

handleBack ==
    /\ detailView.left = "none"
    /\ \E confirmed \in BOOLEAN : detailView' = handleBackOf(detailView, confirmed)
    /\ EditSame

\* the handler of beforeunload: event.preventDefault() when the form is dirty
beforeunloadOf(d) ==
    IF ~isDirty(d)
    THEN [d EXCEPT !.blocked = FALSE, !.left = "unloaded", !.asked = FALSE,
                   !.toast = NoToast, !.event = "unload"]
    ELSE [d EXCEPT !.blocked = TRUE, !.asked = FALSE, !.toast = NoToast,
                   !.event = "unload"]

beforeunload ==
    /\ detailView.left = "none"
    /\ detailView' = beforeunloadOf(detailView)
    /\ EditSame

EditNext ==
    \/ setField
    \/ handleSaveClicked
    \/ SaveSettled
    \/ SaveSynced
    \/ handleBack
    \/ beforeunload

EditSpec == EditInit /\ [][EditNext]_vars

--------------------------------------------------------------------------
(* The documents page: the poll of the tracked upload, the list refresh *)

OthersIdle ==
    /\ IdleCodec
    /\ IdleDates
    /\ IdleView
    /\ IdleForm
    /\ IdleController

OthersSame == UNCHANGED <<codecVars, dateVars, viewVars, formVars, ctlVars>>

\* the page before its first effects: the prefetch of the list succeeded or
\* failed, sessionStorage holds the id of an upload or nothing
DocInit ==
    /\ OthersIdle
    /\ \E service \in [DocIds -> DocStatuses], stored \in {0} \cup DocIds :
        \E documents \in {NoDocuments, DocumentsResponse(service)} :
            docs = [NoDocs EXCEPT !.service = service, !.stored = stored,
                                  !.documents = documents,
                                  !.documentRows = documents.items]

\* the render that follows a handler, with the effects that follow it: the
\* rows replaced when useSWR returns other items, the tracked upload found
\* READY or FAILED in the list, sessionStorage and the upload state, the
\* cleanup of the poll effect and its next run, which calls poll()
DocRender(h, again, name) ==
    LET tracked == h.pendingDocumentId # docs.pendingDocumentId
        replaced == h.documents.has /\ (again \/ h.documents.items # docs.documents.items)
        rows == IF replaced THEN h.documents.items ELSE h.documentRows
        started == (tracked \/ again) /\ h.pendingDocumentId # 0
        effectN == docs.effects + 1
        found == IF h.documents.has /\ h.pendingDocumentId # 0 /\ (replaced \/ tracked)
                 THEN pendingDoc(h.documents, h.pendingDocumentId).status
                 ELSE "none"
        stop == found \in {"READY", "FAILED"}
        pendingN == IF stop THEN 0 ELSE h.pendingDocumentId
        cleanup == tracked \/ again \/ stop
    IN  docs' = [h EXCEPT
            !.documentRows = rows,
            !.pendingDocumentId = pendingN,
            !.stored = pendingN,
            !.uploadState = IF stop THEN "idle"
                            ELSE IF pendingN # 0 /\ h.uploadState = "idle" THEN "processing"
                            ELSE h.uploadState,
            !.toast = IF found = "FAILED" THEN "documents.uploadFailed" ELSE h.toast,
            !.effect = IF pendingN = 0 THEN 0 ELSE IF started THEN effectN ELSE docs.effect,
            !.effects = IF started THEN effectN ELSE docs.effects,
            !.polled = IF started THEN h.polled + 1 ELSE h.polled,
            !.polls = IF started
                      THEN h.polls \cup {[effect |-> effectN, id |-> h.pendingDocumentId]}
                      ELSE h.polls,
            !.timers = IF cleanup THEN {} ELSE h.timers,
            !.event = name]

\* the first effects: the stored id becomes the tracked id, the list is
\* refreshed once the profile is held
DocMount ==
    /\ ~docs.mounted
    /\ docs.event = "none"
    /\ DocRender([docs EXCEPT !.mounted = TRUE, !.pendingDocumentId = docs.stored,
                              !.refreshes = @ \cup {0}], TRUE, "mount")
    /\ OthersSame

\* the service finishes the processing of a document
DocProcessed ==
    /\ \E i \in DocIds, status \in {"READY", "FAILED"} :
        /\ docs.service[i] = "PROCESSING"
        /\ docs' = [docs EXCEPT !.service[i] = status, !.toast = "none",
                                !.event = "service"]
    /\ OthersSame

StopsPollingOnAnyApiError(o) == o.kind = "error" /\ o.api

\* error instanceof ApiError && error.status === 404
StopsPolling(o) == o.kind = "error" /\ o.api /\ o.status = 404

\* poll of the effect p.effect: GET /documents/{id} is answered
PollSettlesWith(p, o) ==
    LET left == [docs EXCEPT !.polls = @ \ {p}, !.toast = "none"]
        detail == [id |-> p.id, status |-> docs.service[p.id]]
        rows == rowsWithDetail(docs.documentRows, detail)
    IN  /\ p \in docs.polls
        /\ o \in PollOutcomes(docs.service, p.id)
        /\ IF p.effect # docs.effect
           THEN docs' = [left EXCEPT !.event = "pollIgnored"]
           ELSE IF o.kind = "ok"
           THEN IF detail.status = "READY"
                THEN DocRender([left EXCEPT !.documentRows = rows,
                                            !.pendingDocumentId = 0,
                                            !.uploadState = "idle",
                                            !.toast = "documents.uploadSuccess",
                                            !.refreshes = @ \cup {p.effect}],
                               FALSE, "pollReady")
                ELSE IF detail.status = "FAILED"
                THEN DocRender([left EXCEPT !.documentRows = rows,
                                            !.pendingDocumentId = 0,
                                            !.uploadState = "idle",
                                            !.toast = "documents.uploadFailed"],
                               FALSE, "pollFailed")
                ELSE DocRender([left EXCEPT !.documentRows = rows,
                                            !.timers = @ \cup {[effect |-> p.effect,
                                                                delay |-> 5000]}],
                               FALSE, "pollPending")
           ELSE IF StopsPolling(o)
           THEN DocRender([left EXCEPT !.pendingDocumentId = 0,
                                       !.uploadState = "idle",
                                       !.refreshes = @ \cup {p.effect}],
                          FALSE, "pollNotFound")
           ELSE DocRender([left EXCEPT
                              !.timers = @ \cup {[effect |-> p.effect, delay |-> 8000]},
                              !.toast = IF o.api /\ o.status >= 400 /\ o.status < 500
                                        THEN "ApiError.message" ELSE "none"],
                          FALSE, "pollError")
        /\ OthersSame

AllPollOutcomes == UNION {PollOutcomes(service, 1) : service \in [DocIds -> DocStatuses]}

PollSettles ==
    \E p \in docs.polls, o \in AllPollOutcomes : PollSettlesWith(p, o)

\* setTimeout(poll, ...) fires
TimerFires ==
    /\ docs.polled < MaxPolls
    /\ \E t \in docs.timers :
        docs' = [docs EXCEPT !.timers = @ \ {t},
                             !.polls = @ \cup {[effect |-> t.effect,
                                                id |-> docs.pendingDocumentId]},
                             !.polled = @ + 1, !.toast = "none", !.event = "timer"]
    /\ OthersSame

\* refreshAndHydrateDocuments started by r (0: the mount effect) goes on
\* after await refreshDocuments()
RefreshSettlesWith(r, status) ==
    LET latest == IF status = 200 THEN DocumentsResponse(docs.service) ELSE docs.documents
        left == [docs EXCEPT !.refreshes = @ \ {r}]
    IN  /\ r \in docs.refreshes
        /\ IF ~docs.mounted
           THEN docs' = [left EXCEPT !.toast = "none", !.event = "refreshIgnored"]
           ELSE DocRender([left EXCEPT
                              !.documents = latest,
                              !.documentRows = IF latest.has THEN latest.items ELSE @,
                              !.toast = IF status = 500 THEN "toasts.loadError" ELSE "none"],
                          FALSE, "refresh")
        /\ OthersSame

RefreshSettles ==
    \E r \in 0..MaxEffects, status \in {200, 401, 500} : RefreshSettlesWith(r, status)

\* the language is switched: t changes and the poll effect runs again
DocEffectAgain ==
    /\ docs.mounted
    /\ docs.pendingDocumentId # 0
    /\ docs.effects < MaxEffects
    /\ docs.polled < MaxPolls
    /\ LET tracked == docs.pendingDocumentId
           effectN == docs.effects + 1
       IN  docs' = [docs EXCEPT !.effect = effectN, !.effects = effectN,
                                !.polled = @ + 1, !.timers = {},
                                !.polls = @ \cup {[effect |-> effectN, id |-> tracked]},
                                !.toast = "none", !.event = "again"]
    /\ OthersSame

\* the page is left: the cleanup of the poll effect
DocUnmount ==
    /\ docs.mounted
    /\ docs' = [docs EXCEPT !.mounted = FALSE, !.effect = 0, !.timers = {},
                            !.toast = "none", !.event = "unmount"]
    /\ OthersSame

DocNext ==
    \/ DocMount
    \/ DocProcessed
    \/ PollSettles
    \/ TimerFires
    \/ RefreshSettles
    \/ DocEffectAgain
    \/ DocUnmount

DocSpec == DocInit /\ [][DocNext]_vars

--------------------------------------------------------------------------
(* The triage panel on the list: selection, the values entered, Save *)

TriageInit == InitOf([q |-> EmptyQuery, filler |-> 0, status |-> Statuses(MaxId)],
                     UnmountedPanel)

TriageNext ==
    \/ ListResolveOK
    \/ toggleSelection
    \/ toggleSelectAll
    \/ CancelSelection
    \/ handleChange
    \/ handleTriageSubmit
    \/ TriageOK
    \/ TriageFail

TriageSpec == TriageInit /\ [][TriageNext]_vars

--------------------------------------------------------------------------
(* The list fetches on their own: filter and page changes, the interval of  *)
(* useSWR ticking for ever, every list fetch answered                       *)

\* refreshInterval: a tick of the interval, not counted among the operations
IntervalTick == ListFetchStartCounted(0)

RefillNext ==
    \/ IntervalTick
    \/ ListResolveOK
    \/ ProfileLoaded
    \/ Paginate
    \/ applyFilters
    \/ clearFilters
    \/ NavCommit

\* ENABLED <<NavCommit>>_vars, written out
NavCommitEnabled ==
    LET keyN == Decode(pendingNav.q).params
    IN  /\ pendingNav.pending
        /\ pendingNav.path = "/requirements"
        /\ (keyN # Key /\ ~LiveFor(inflight, keyN)) => HasFree(inflight)

\* ENABLED <<ListResolveOKOf(s)>>_vars, written out
ListResolveEnabled(s) == inflight[s].kind = "list"

\* the router commits, the interval ticks, every request is answered: weak
\* fairness of each, with the enabling conditions of the commit and of the
\* answers written out
RefillFairness ==
    /\ []<>(~NavCommitEnabled) \/ []<><<NavCommit>>_vars
    /\ WF_vars(IntervalTick)
    /\ WF_vars(ProfileLoaded)
    /\ \A s \in Slots :
          []<>(~ListResolveEnabled(s)) \/ []<><<ListResolveOKOf(s)>>_vars

RefillSpec == Init /\ [][RefillNext]_vars /\ RefillFairness

--------------------------------------------------------------------------
(* The completes on their own: a list of two open records, Complete pressed *)
(* up to MaxCompletes times                                                 *)

CompleteInit == InitAt([q |-> EmptyQuery, filler |-> 0, status |-> Statuses(0)])

CompleteNext ==
    \/ handleCompleteWithin(MaxCompletes)
    \/ CompleteOK
    \/ CompleteFail
    \/ ListResolveOK
    \/ ListResolveFail

CompleteSpec == CompleteInit /\ [][CompleteNext]_vars

--------------------------------------------------------------------------
(* Claims about the status derivation, checked under DateSpec *)

UtcDay(t) == t \div MsPerDay

DueBeforeToday(rec, clock) ==
    rec.due_date.kind = "date" /\ UtcDay(rec.due_date.t) < UtcDay(clock)

PrecedenceTable(rec, clock) ==
    IF rec.archive_state \in {"archived", "deleted"} \/ rec.status = "ARCHIVED" THEN "ARCHIVED"
    ELSE IF DueBeforeToday(rec, clock) THEN "OVERDUE"
    ELSE CASE rec.status = "PENDING_REVIEW" -> "NEEDS_TRIAGE"
           [] rec.status \in {"DONE", "READY"} -> "COMPLETED"
           [] rec.status = "REVIEW" -> "NEEDS_REVIEW"
           [] rec.status \in {"OPEN", "null"} -> "OPEN"

\* C4: for every archive state, raw status and due date, deriveUiStatus returns
\* one of the six presentation statuses, the one the first-match precedence
\* table gives (archived/deleted or ARCHIVED, then overdue, then the raw status),
\* and an archive state of archived or deleted always gives ARCHIVED.
C4_DeriveUiStatusIsPrecedenceTable ==
    /\ badge.ui \in UiStatuses
    /\ badge.ui = PrecedenceTable(record, now)
    /\ record.archive_state \in {"archived", "deleted"} => badge.ui = "ARCHIVED"

C4_Witness ==
    /\ record.archive_state = "deleted"
    /\ record.status = "PENDING_REVIEW"
    /\ DueBeforeToday(record, now)
    /\ badge.ui = "ARCHIVED"

\* C10: daysUntil compares UTC calendar days: a due date on today's UTC date
\* gives 0 and is not overdue at any time of day, a due date on the previous UTC
\* date gives a negative value and is overdue, and a null, empty or unparseable
\* due date gives null and is never overdue.
C10_DaysUntilComparesUtcDays ==
    LET due == record.due_date
    IN  /\ due.kind # "date" => badge.days.null /\ ~badge.overdue
        /\ due.kind = "date" =>
              /\ ~badge.days.null
              /\ UtcDay(due.t) = UtcDay(now) => badge.days.n = 0 /\ ~badge.overdue
              /\ UtcDay(due.t) = UtcDay(now) - 1 => badge.days.n < 0 /\ badge.overdue

C10_Witness ==
    /\ record.due_date.kind = "date"
    /\ UtcDay(record.due_date.t) = UtcDay(now)
    /\ record.due_date.t < now
    /\ now - record.due_date.t > MsPerDay \div 2
    /\ badge.days = Days(0)
    /\ ~badge.overdue

--------------------------------------------------------------------------
(* Claims about the filter codec, checked under CodecSpec *)

Pieces(p) == IF Falsy(p) THEN {} ELSE Range(Split(p.value))

BucketTokens(buckets) ==
    UNION {Range(STATUS_QUERY_MAP(b)) : b \in Range(buckets) \ {"archived"}}

\* C5: after updateQuery with a statusFilters patch the query never carries both
\* archived=true and a status key: with archived in the patch it has
\* archived=true and no status, without it no archived key and a status made of
\* the raw tokens of the selected buckets (no status key when none is selected);
\* the parameters sent to the list endpoint never carry both either.
C5_ArchivedExcludesStatus ==
    /\ ~(decoded.params.archived.present /\ decoded.params.status.present)
    /\ lastPatch.called /\ lastPatch.next.statusFilters.present =>
          LET buckets == lastPatch.next.statusFilters.value
          IN  /\ ~(query.archived = Given(<<"true">>) /\ query.status.present)
              /\ IF Includes(buckets, "archived")
                 THEN query.archived = Given(<<"true">>) /\ ~query.status.present
                 ELSE /\ ~query.archived.present
                      /\ query.status.present <=> BucketTokens(buckets) # {}
                      /\ Pieces(query.status) = {<<tok>> : tok \in BucketTokens(buckets)}

C5_Witness ==
    /\ lastPatch.called
    /\ lastPatch.next.statusFilters = Given(<<"active", "archived">>)
    /\ query.archived = Given(<<"true">>)
    /\ ~query.status.present
    /\ decoded.params.archived.present

\* C6: for every query string the decoded status filters are exactly {archived}
\* or a subset of {active, completed, triage}; archived=true decodes to
\* {archived} alone, also when the query holds a status value.
C6_DecodedStatusIsExclusive ==
    /\ \/ decoded.status = <<"archived">>
       \/ Range(decoded.status) \subseteq {"active", "completed", "triage"}
    /\ query.archived = Given(<<"true">>) => decoded.status = <<"archived">>

IsDecimalInteger(s) ==
    LET t == Trim(s)
        body == IF t # <<>> /\ Head(t) = "-" THEN Tail(t) ELSE t
    IN  body # <<>> /\ \A i \in 1..Len(body) : IsDigit(body[i])

DecimalValue(s) ==
    LET t == Trim(s)
    IN  IF Head(t) = "-" THEN -DigitsValue(Tail(t)) ELSE DigitsValue(t)

\* C8: the requested page is an integer of at least 1: a missing, non-numeric,
\* zero or negative page value resolves to 1 and a valid positive page value
\* resolves to itself.
C8_ResolvePage ==
    /\ decoded.page \in Nat /\ decoded.page >= 1
    /\ decoded.page =
          IF ~query.page.present THEN 1
          ELSE IF ~IsDecimalInteger(query.page.value) THEN 1
          ELSE IF DecimalValue(query.page.value) < 1 THEN 1
          ELSE DecimalValue(query.page.value)

Canonical(S) == SelectSeq(dueFilterOptions, LAMBDA o : o \in S)

\* C9: for every subset f of {overdue, due7, due30} in any order, decoding the
\* query written by updateQuery({dueFilters: f}) gives the members of f in the
\* order overdue, due7, due30, and an empty f removes the due key; whatever the
\* due value, the decoded filters are known tokens, without duplicates, in
\* that order.
C9_DueFiltersRoundTrip ==
    /\ decoded.due = Canonical(Range(decoded.due))
    /\ Range(decoded.due) = {o \in Range(dueFilterOptions) : <<o>> \in {Trim(x) : x \in Pieces(query.due)}}
    /\ lastPatch.called /\ lastPatch.next.dueFilters.present =>
          LET f == lastPatch.next.dueFilters.value
          IN  /\ decoded.due = Canonical(Range(f))
              /\ f = <<>> => ~query.due.present

C9_Witness ==
    /\ lastPatch.called
    /\ lastPatch.next.dueFilters = Given(<<"due30", "overdue">>)
    /\ query.due = Given(<<"due30", Comma, "overdue">>)
    /\ decoded.due = <<"overdue", "due30">>

--------------------------------------------------------------------------
(* Claims about the list controller, checked under Spec *)

\* C1: at every render settled by its effects, whatever wrote the mirror
\* (reload, refreshAndHydrate, row replacement, clearing by updateQuery),
\* every selected id is the id of a row of the mirror whose raw status is
\* PENDING_REVIEW.
C1_SelectionWithinTriageRows ==
    \A k \in 1..Len(selectedIds) :
        \E i \in 1..Len(requirementRows) :
            /\ requirementRows[i].id = selectedIds[k]
            /\ requirementRows[i].status = "PENDING_REVIEW"

\* a reload has replaced the mirror: record 1, to be triaged when the page
\* of the small service was opened, is in it as OPEN, and the selection that
\* is left holds another record
C1_Witness ==
    /\ lastEvent \in {"listOK", "hydrateOK"}
    /\ srv.filler = 0
    /\ Len(selectedIds) > 0
    /\ \E i \in 1..Len(requirementRows) :
        /\ requirementRows[i].id = 1
        /\ requirementRows[i].status = "OPEN"

FromCachedResponse == \E d \in cache' : requirementRows' = d.items

SingleRowReplace ==
    /\ lastEvent' \in {"completeOK", "archiveOK"}
    /\ \E i \in Ids, st \in ServiceStatuses :
        requirementRows' = ReplaceRow(requirementRows, Row(i, st))

EmptiedByUpdateQuery == lastEvent' = "updateQuery" /\ requirementRows' = <<>>

FailedCalls == {"completeFail", "archiveFail", "dismissFail", "triageFail"}

FailureLeavesMirrorAndSelection ==
    /\ requirementRows' = requirementRows
    /\ selectedIds' = selectedIds
    /\ toast'.level = "error"

\* C3 as stated: when the call of complete, archive, bulk dismiss or triage
\* save fails, the mirror and the selection are as before, an error message
\* is shown and the completing marker is cleared.
C3_FailedCallClearsMarker ==
    [][lastEvent' \in FailedCalls
          => FailureLeavesMirrorAndSelection /\ completingId' = 0]_vars

\* C3 amended: when the call of complete, archive, bulk dismiss or triage save
\* fails, the mirror and the selection are as before and an error message is
\* shown; a failed complete clears the completing marker, a failed archive,
\* bulk dismiss or triage save leaves the marker as it was.
C3_FailedCallLeavesState ==
    [][lastEvent' \in FailedCalls
          => /\ FailureLeavesMirrorAndSelection
             /\ completingId' = IF lastEvent' = "completeFail" THEN 0 ELSE completingId
      ]_vars

\* an archive, bulk dismiss or triage save has failed while a complete is in
\* flight: the error is shown and the marker is still set
C3_Witness ==
    /\ lastEvent \in {"archiveFail", "dismissFail", "triageFail"}
    /\ toast.level = "error"
    /\ completingId # 0
    /\ \E s \in Slots : inflight[s].kind = "complete"

\* C7: the page shown lies in 1..max(1, ceil(total / pageSize)); with 25
\* records and pages of 10 a request for page 5 is shown as page 3.
C7_DisplayedPageWithinPageCount ==
    /\ currentPage(requirements, decoded.page) >= 1
    /\ currentPage(requirements, decoded.page) <= pageCount(requirements, requirementRows)
    /\ (requirements.defined /\ requirements.total = 25 /\ decoded.page = 5)
          => currentPage(requirements, decoded.page) = 3

--------------------------------------------------------------------------
(* Claims about the mutation workflows, checked under Spec *)

\* C11: handleComplete of a record whose raw status is DONE or PENDING_REVIEW
\* starts no request and leaves the mirror, the selection and the completing
\* marker as they were.
C11_CompleteOfDoneOrTriageIsNoop ==
    [][\A i \in Followed :
          LET requirement == requirementRows[i]
          IN  (/\ requirement.status \in {"DONE", "PENDING_REVIEW"}
               /\ handleCompleteOf(requirement))
              => UNCHANGED <<inflight, srv, requirementRows, selectedIds,
                             completingId>>]_vars

\* handleComplete returned early on a completed row and on a row to be triaged
C11_Witness ==
    /\ lastEvent = "completeRefused"
    /\ \E i, j \in Followed :
        /\ requirementRows[i].status = "DONE"
        /\ requirementRows[j].status = "PENDING_REVIEW"
    /\ selectedIds # <<>>

\* the mirror after the step holds the response in place of the row of the
\* response's id, every other row as before, and no row more
RowReplacedBy(updated) ==
    /\ Len(requirementRows') = Len(requirementRows)
    /\ \A i \in 1..Len(requirementRows) :
        requirementRows'[i] = IF requirementRows[i].id = updated.id
                              THEN updated
                              ELSE requirementRows[i]

\* a request for the list of the current key was started by the step
RevalidationStarted(s) ==
    /\ inflight'[s].kind = "list"
    /\ inflight'[s].key = Key
    /\ inflight'[s].live

\* C12: when the complete call succeeds the success message is shown, the row
\* of the mirror with the response's id is replaced by the response, the other
\* rows stay (none is added when the id is not in the mirror), and the list is
\* revalidated afterwards.
C12_CompleteSuccess ==
    [][lastEvent' = "completeOK" =>
          \E s \in Slots :
              /\ inflight[s].kind = "complete"
              /\ toast' = Toast("success", "requirements.completeSuccess")
              /\ RowReplacedBy(Row(TheId(inflight[s]), "DONE"))
              /\ RevalidationStarted(s)]_vars

\* a complete succeeded: its row is shown completed next to another row,
\* and the list is being fetched again
C12_Witness ==
    /\ lastEvent = "completeOK"
    /\ toast = Toast("success", "requirements.completeSuccess")
    /\ \E i, j \in Followed :
        /\ requirementRows[i].status = "DONE"
        /\ requirementRows[j].status # "DONE"
    /\ LiveFor(inflight, Key)

ArchiveKinds == {"archive", "dismiss", "detailArchive"}

\* neither empty nor blank at either end
IsTrimmedText(reason) ==
    /\ reason # <<>>
    /\ Head(reason) # Blank
    /\ reason[Len(reason)] # Blank

\* every archive call in flight carries a trimmed, non-empty reason
SentReasonsTrimmed ==
    \A s \in Slots :
        inflight[s].kind \in ArchiveKinds =>
            \A i \in inflight[s].ids : IsTrimmedText(inflight[s].reasons[i])

\* the step is one of the four archive workflows, its prompt answered with input
ArchivePrompted(input) ==
    \/ \E i \in Followed :
          /\ requirementRows[i].status # "PENDING_REVIEW"
          /\ ~hasRetentionHold(requirementRows[i])
          /\ archiveRequirementOf(requirementRows[i], input)
    \/ \E i \in Followed :
          /\ requirementRows[i].status = "PENDING_REVIEW"
          /\ dismissRequirementsListOf({requirementRows[i].id}, FALSE, TRUE, Absent,
                                       [confirmed |-> TRUE, input |-> input])
    \/ /\ hasSelection
       /\ ~PanelBusy
       /\ handleDismissClickOf(RowIds(selectedRequirements(requirementRows, selectedIds)),
                               [confirmed |-> TRUE, input |-> input])
    \/ \E id \in Ids :
          /\ srv.status[id] # "ARCHIVED"
          /\ ~DetailBusy
          /\ handleArchiveOf(id, input)

\* the step started archive calls, all of them with this reason
StartedWithReason(reason) ==
    \E s \in Slots :
        /\ inflight[s].kind = "idle"
        /\ inflight'[s].kind \in ArchiveKinds
        /\ \A r \in Slots \ {s} : inflight'[r] = inflight[r]
        /\ \A i \in inflight'[s].ids : inflight'[s].reasons[i] = reason

IsBlankText(text) == \A k \in 1..Len(text) : text[k] = Blank

\* C13: no archive call is sent with an empty or blank reason: in the archive
\* of a row and of the detail view, in the dismiss of a row and in the dismiss
\* of the triage panel a cancelled prompt or a blank reason ends the workflow
\* before any call, and any other reason is sent trimmed.
C13_ArchiveReasonRequiredAndTrimmed ==
    /\ []SentReasonsTrimmed
    /\ [][\A input \in PromptInputs :
              ArchivePrompted(input) =>
                  IF ~input.present \/ IsBlankText(input.value)
                  THEN UNCHANGED <<inflight, srv>>
                  ELSE StartedWithReason(<<"not", Blank, "applicable">>)]_vars

\* the triage panel's dismiss of two records and the archive of the detail
\* view are in flight, each call with the trimmed reason
C13_Witness ==
    \E s, d \in Slots :
        /\ inflight[s].kind = "dismiss"
        /\ inflight[s].panel
        /\ Cardinality(inflight[s].ids) = 2
        /\ inflight[d].kind = "detailArchive"
        /\ \A i \in inflight[s].ids :
              inflight[s].reasons[i] = <<"not", Blank, "applicable">>

--------------------------------------------------------------------------
(* Claims about the triage save, checked under Spec and FormSpec *)

\* the text of a whole number 1, 2, 3, ...
IsPositiveInteger(text) ==
    /\ text # <<>>
    /\ \A k \in 1..Len(text) : IsDigit(text[k])
    /\ DigitsValue(text) >= 1

\* what a form must hold to be sent
Sendable(form) ==
    /\ form.status.present
    /\ form.frequency.present
    /\ form.dueDate.present \/ Chosen(form.frequency) \in {"BEFORE_EACH_USE", "ONE_TIME"}
    /\ Chosen(form.frequency) \in {"EVERY_N_DAYS", "EVERY_N_WEEKS", "EVERY_N_MONTHS"}
          => form.interval.present /\ IsPositiveInteger(form.interval.value)

\* the step is Save of the panel with this form
PanelSaved(form) ==
    /\ IntervalFieldAccepted(form)
    /\ handleSubmitOf(form)

\* the step started the triage call of the selected records, and no other
TriageCallStarted ==
    \E s \in Slots :
        /\ inflight[s].kind = "idle"
        /\ inflight'[s].kind = "triage"
        /\ inflight'[s].ids = RowIds(selectedRequirements(requirementRows, selectedIds))
        /\ \A r \in Slots \ {s} : inflight'[r] = inflight[r]

\* C14: Save of the triage panel reaches the network only with a status, a
\* frequency, a due date unless the frequency is BEFORE_EACH_USE or ONE_TIME,
\* and a positive integer interval when the frequency is an EVERY_N_ one;
\* any other form is refused with a message, no call is made, and the mirror
\* and the selection stay as they were.
C14_TriageSaveValidated ==
    [][(hasSelection /\ ~PanelBusy) =>
          \A form \in PanelForms :
              PanelSaved(form) =>
                  IF Sendable(form)
                  THEN TriageCallStarted
                  ELSE /\ toast'.level = "error"
                       /\ UNCHANGED <<inflight, srv, requirementRows, selectedIds>>]_vars

\* Save was refused for the missing interval: the selection is still there
\* and no triage call is in flight
C14_Witness ==
    /\ toast = Toast("error", "triage.intervalRequired")
    /\ Len(selectedIds) = 2
    /\ \A s \in Slots : inflight[s].kind # "triage"

\* the keys of an anchor value that an interval may set
IntervalKeys(anchorValue) ==
    <<anchorValue.interval, anchorValue.days, anchorValue.weeks, anchorValue.months>>

\* interval n and the key of the frequency n, the other two keys not set
IntervalKeysFor(frequency, n) ==
    <<n,
      IF frequency = "EVERY_N_DAYS" THEN n ELSE Undefined,
      IF frequency = "EVERY_N_WEEKS" THEN n ELSE Undefined,
      IF frequency = "EVERY_N_MONTHS" THEN n ELSE Undefined>>

\* C15: a triage save with frequency EVERY_N_DAYS, EVERY_N_WEEKS or
\* EVERY_N_MONTHS and interval n sends an anchor value with interval n and
\* days n, weeks n or months n respectively, and neither of the other two;
\* with any other frequency the anchor value has none of the four keys.
C15_AnchorValueInterval ==
    triageSave.outcome.called =>
        LET form == triageSave.form
            frequency == Chosen(form.frequency)
            anchorValue == triageSave.outcome.payload.anchor_value
        IN  IF frequency \in {"EVERY_N_DAYS", "EVERY_N_WEEKS", "EVERY_N_MONTHS"}
            THEN /\ anchorValue.defined
                 /\ Truthy(anchorValue.interval)
                 /\ IntervalKeys(anchorValue)
                        = IntervalKeysFor(frequency, anchorValue.interval)
                 /\ IsPositiveInteger(form.interval.value) =>
                        anchorValue.interval = Tenths(10 * DigitsValue(form.interval.value))
            ELSE IntervalKeys(anchorValue) = <<Undefined, Undefined, Undefined, Undefined>>

\* the panel saved every 12 weeks from a custom date: the anchor value holds
\* the date, interval 12 and weeks 12
C15_Witness ==
    /\ triageSave.view = "panel"
    /\ triageSave.outcome.called
    /\ triageSave.form.frequency = Given(<<"EVERY_N_WEEKS">>)
    /\ triageSave.form.interval = Given(<<"1", "2">>)
    /\ triageSave.outcome.payload.anchor_value.date.present
    /\ triageSave.outcome.payload.anchor_value.weeks = Tenths(120)
    /\ triageSave.outcome.payload.anchor_value.interval = Tenths(120)

--------------------------------------------------------------------------
(* Claims about the bulk workflows and the selection, checked under Spec *)

\* the step only ended the request of slot s: no request was started
OnlyEnded(s) ==
    /\ inflight'[s] = NoReq
    /\ \A r \in Slots \ {s} : inflight'[r] = inflight[r]

\* C16: when an archive call of a bulk dismiss is rejected the batch fails as
\* a whole: an error is shown, the selection and the mirror stay as they were
\* and nothing is revalidated, also when other calls of the batch were
\* carried out by the service.
C16_DismissFailsAsAWhole ==
    [][lastEvent' = "dismissFail" =>
          /\ toast'.level = "error"
          /\ UNCHANGED <<requirementRows, selectedIds, cache, requirements>>
          /\ \E s \in Slots : inflight[s].kind = "dismiss" /\ OnlyEnded(s)]_vars

\* a dismiss of two records failed after the service archived one of them:
\* both are still shown to be triaged, and both are still selected
C16_Witness ==
    /\ lastEvent = "dismissFail"
    /\ toast.level = "error"
    /\ \E i \in Followed :
        /\ srv.status[requirementRows[i].id] = "ARCHIVED"
        /\ requirementRows[i].status = "PENDING_REVIEW"
        /\ Includes(selectedIds, requirementRows[i].id)
    /\ Len(selectedIds) = 2

\* a bulk dismiss in flight is one archive call for each of its records, every
\* call with the same reason
OneCallPerRecord ==
    \A s \in Slots :
        inflight[s].kind = "dismiss" =>
            /\ inflight[s].ids # {}
            /\ DOMAIN inflight[s].reasons = inflight[s].ids
            /\ inflight[s].done \subseteq inflight[s].ids
            /\ \A i, j \in inflight[s].ids :
                  inflight[s].reasons[i] = inflight[s].reasons[j]

\* the requests for the list of the current key whose response will be used
LiveListRequests(inf) ==
    {s \in Slots : inf[s].kind = "list" /\ inf[s].key = Key /\ inf[s].live}

\* C17: when all archive calls of a bulk dismiss succeeded, the dismissed ids
\* and only they leave the selection and the list is revalidated once; the
\* batch is one archive call per record, all with the same reason.
C17_DismissSuccess ==
    /\ []OneCallPerRecord
    /\ [][lastEvent' = "dismissOK" =>
              \E s \in Slots :
                  /\ inflight[s].kind = "dismiss"
                  /\ Cardinality(inflight[s].ids \ inflight[s].done) = 1
                  /\ selectedIds'
                        = SelectSeq(selectedIds, LAMBDA id : id \notin inflight[s].ids)
                  /\ LiveListRequests(inflight') = {s}
                  /\ \A r \in Slots \ {s} :
                        inflight'[r].kind = inflight[r].kind]_vars

\* the dismiss of one of two selected records succeeded: the other one is
\* still selected and one request for the list is in flight
C17_Witness ==
    /\ lastEvent = "dismissOK"
    /\ Len(selectedIds) = 1
    /\ srv.status[selectedIds[1]] = "PENDING_REVIEW"
    /\ \E i \in Ids : srv.status[i] = "ARCHIVED"
    /\ Cardinality(LiveListRequests(inflight)) = 1

\* C18: a bulk triage save is one request with the ids of all selected
\* records; when it succeeds the selection is emptied and the list is
\* revalidated; when it fails the selection stays and nothing is revalidated.
C18_TriageSave ==
    [][/\ \A s \in Slots :
            (inflight[s].kind = "idle" /\ inflight'[s].kind = "triage") =>
                /\ inflight'[s].ids = {selectedIds[k] : k \in 1..Len(selectedIds)}
                /\ inflight'[s].ids # {}
                /\ \A r \in Slots \ {s} : inflight'[r] = inflight[r]
       /\ lastEvent' = "triageOK" =>
            \E s \in Slots :
                /\ inflight[s].kind = "triage"
                /\ selectedIds' = <<>>
                /\ LiveListRequests(inflight') = {s}
       /\ lastEvent' = "triageFail" =>
            \E s \in Slots :
                /\ inflight[s].kind = "triage"
                /\ selectedIds' = selectedIds
                /\ OnlyEnded(s)]_vars

\* the triage save of two selected records succeeded: nothing is selected
\* and the list is being fetched
C18_Witness ==
    /\ lastEvent = "triageOK"
    /\ toast = Toast("success", "triage.success")
    /\ selectedIds = <<>>
    /\ \A i \in Ids : srv.status[i] = "OPEN"
    /\ Cardinality(LiveListRequests(inflight)) = 1

\* C19: every change of the filters or of the page made through updateQuery
\* (Apply, Clear, the pager) empties the mirror and the selection before the
\* new query string is committed by the router: the call empties both while
\* the query string is still the old one, and the query string only changes
\* to the one such a call handed to the router.
C19_UpdateQueryEmptiesBeforeCommit ==
    [][/\ lastEvent' = "updateQuery" =>
            /\ requirementRows' = <<>>
            /\ selectedIds' = <<>>
            /\ query' = query
            /\ pendingNav'.pending
       /\ (Paginate \/ applyFilters \/ clearFilters) => lastEvent' = "updateQuery"
       /\ query' # query =>
            /\ pendingNav.pending
            /\ query' = pendingNav.q]_vars

\* Apply was pressed while rows were shown: the mirror and the selection
\* are empty and the new query string waits for the router
C19_Witness ==
    /\ lastEvent = "updateQuery"
    /\ requirements.defined
    /\ requirements.items # <<>>
    /\ requirementRows = <<>>
    /\ selectedIds = <<>>
    /\ pendingNav.pending
    /\ pendingNav.q # query

IdsOf(sel) == {sel[k] : k \in 1..Len(sel)}

\* C20: toggleSelection(record, checked) changes the selection only for a
\* record whose raw status is PENDING_REVIEW: checked adds its id, or leaves
\* the selection as it is when the id is there already, unchecked removes it;
\* for any other record the selection stays as it is.
C20_ToggleSelection ==
    [][\A i \in Followed, checked \in BOOLEAN :
          LET requirement == requirementRows[i]
              id == requirement.id
          IN  toggleSelectionOf(requirement, checked) =>
                  IF requirement.status # "PENDING_REVIEW" THEN selectedIds' = selectedIds
                  ELSE IF checked /\ id \in IdsOf(selectedIds) THEN selectedIds' = selectedIds
                  ELSE IF checked
                  THEN /\ IdsOf(selectedIds') = IdsOf(selectedIds) \cup {id}
                       /\ Len(selectedIds') = Len(selectedIds) + 1
                       /\ SubSeq(selectedIds', 1, Len(selectedIds)) = selectedIds
                  ELSE /\ IdsOf(selectedIds') = IdsOf(selectedIds) \ {id}
                       /\ selectedIds'
                            = SelectSeq(selectedIds, LAMBDA x : x # id)]_vars

\* the second record was checked, then the first, next to a record that is
\* not to be triaged
C20_Witness ==
    /\ selectedIds = <<2, 1>>
    /\ \A k \in 1..2 : \E i \in Followed :
          requirementRows[i].id = k /\ requirementRows[i].status = "PENDING_REVIEW"
    /\ lastEvent = "other"

--------------------------------------------------------------------------
(* Claims about the select-all checkbox, checked under SelectAllSpec *)

SelectableIds(rows) ==
    {rows[i].id : i \in {k \in 1..Len(rows) : rows[k].status = "PENDING_REVIEW"}}

\* the ids of sel that are in keep, in the order of sel
Restricted(sel, keep) == SelectSeq(sel, LAMBDA id : id \in keep)

\* C21: toggleAll(true) makes the selection its union with the ids of the
\* PENDING_REVIEW rows of the mirror, toggleAll(false) removes exactly those
\* ids; the selected ids that are no selectable ids of the page stay as they
\* were, and with no selectable id on the page the selection is unchanged.
C21_ToggleAll ==
    [][\A checked \in BOOLEAN :
          LET page == SelectableIds(requirementRows)
              off == PageIds \ page
          IN  toggleSelectAllOf(checked) =>
                  /\ IdsOf(selectedIds')
                        = IF checked THEN IdsOf(selectedIds) \cup page
                          ELSE IdsOf(selectedIds) \ page
                  /\ Restricted(selectedIds', off) = Restricted(selectedIds, off)
                  /\ page = {} => selectedIds' = selectedIds]_vars

\* every record to be triaged of the page was added to a selection that held
\* the id of a record of another page
C21_Witness ==
    /\ lastEvent = "selectAll"
    /\ SelectableIds(requirementRows) = {1, 2}
    /\ \A i \in 1..Len(requirementRows) : requirementRows[i].id # 3
    /\ selectedIds = <<3, 1, 2>>

--------------------------------------------------------------------------
(* Claims about the selection column and the errors, checked under Spec *)

\* C22: whenever the triage bucket is not among the selected status filters
\* and the mirror has no PENDING_REVIEW row, the selection is empty: a
\* selection that was not is cleared by the effects of the render.
C22_SelectionClearedWithoutColumn ==
    ~showSelectionColumn(requirementRows, decoded.status) => selectedIds = <<>>

\* a triage save of a selection is in flight; the list then arrived without
\* a record to be triaged, and the selection is gone
C22_Witness ==
    /\ \E s \in Slots : inflight[s].kind = "triage" /\ inflight[s].ids # {}
    /\ lastEvent = "listOK"
    /\ requirementRows # <<>>
    /\ ~showSelectionColumn(requirementRows, decoded.status)
    /\ selectedIds = <<>>

\* a request of the list, of the profile or of a mutation is answered 401
FailsWith401 ==
    \/ ProfileFailedWith(ApiError(401))
    \/ \E s \in Slots :
        \/ ListResolveFailWith(s, 401)
        \/ CompleteFailWith(s, ApiError(401))
        \/ ArchiveFailWith(s, ApiError(401))
        \/ DismissFailWith(s, ApiError(401))
        \/ TriageFailWith(s, ApiError(401))

\* C23: an error with status 401 is never shown as a toast and always leads to
\* the navigation to the login page, whichever request produced it: the fetch
\* of the profile, a fetch of the list, or a mutation.
C23_Status401RedirectsWithoutToast ==
    [][FailsWith401 => toast' = NoToast /\ pendingNav' = LoginNav]_vars

--------------------------------------------------------------------------
(* Claims about overlapping requests, checked under Spec *)

IdsInOrder(rows) == [i \in 1..Len(rows) |-> rows[i].id]

\* the rows are those of a response to the key, but for the rows a mutation
\* has replaced
RowsOfQuery(rows, key) ==
    IdsInOrder(rows) = IdsInOrder(ListResponse(srv, key, "cache").items)

\* a refreshAndHydrate started under another query is answered
HydrateOfOtherQuery ==
    \E s \in Slots :
        /\ inflight[s].kind = "list"
        /\ inflight[s].hydrate
        /\ inflight[s].key # Key
        /\ inflight'[s] = NoReq
        /\ lastEvent' = "hydrateOK"

\* C24: after a filter or page change no row fetched for a previous query is
\* in the mirror: a mirror that is not empty holds the rows of a response to
\* the active query, and the answer to a refreshAndHydrate started under
\* the old query does not write the mirror.
C24_NoRowsOfPreviousQuery ==
    /\ [](requirementRows # <<>> => RowsOfQuery(requirementRows, Key))
    /\ [][HydrateOfOtherQuery => requirementRows' = requirementRows]_vars

--------------------------------------------------------------------------
(* Claims about the completing marker, checked under CompleteSpec *)

CompleteInFlightFor(id) ==
    \E s \in Slots : inflight[s].kind = "complete" /\ inflight[s].ids = {id}

\* no handleComplete is running: none awaits its call, none its refresh
CompletesSettled ==
    \A s \in Slots :
        /\ inflight[s].kind # "complete"
        /\ ~(inflight[s].kind = "list" /\ inflight[s].clearMarker)

\* C25: while a complete request for id X is in flight the completing marker
\* is X, and once every complete has settled the marker is null, also when
\* the complete requests of two ids overlap.
C25_MarkerFollowsCompletes ==
    /\ \A id \in Ids : CompleteInFlightFor(id) => completingId = id
    /\ CompletesSettled => completingId = 0

\* C26: through the buttons of the list, where Complete is disabled for the
\* row of the completing marker, no two complete requests for the same id
\* are in flight at the same time.
C26_OneCompletePerId ==
    \A s1, s2 \in Slots :
        (s1 # s2 /\ inflight[s1].kind = "complete" /\ inflight[s2].kind = "complete")
            => inflight[s1].ids # inflight[s2].ids

--------------------------------------------------------------------------
(* Claims about racing revalidations, checked under Spec *)

\* the request of slot s is the last in flight: no other request, no
\* navigation to commit
LastInFlight(s) ==
    /\ ~pendingNav.pending
    /\ \A t \in Slots \ {s} : inflight[t].kind = "idle"

\* C27: when the revalidations of a filter change, of the interval and of
\* the mutations overlap, the mirror ends as the items of the last successful
\* response to resolve, which replaces the mirror as a whole.  Stated for a
\* response SWR accepts for the active query.
C27_LastResponseWins ==
    [][\A s \in Slots :
          (/\ LastInFlight(s)
           /\ inflight[s].live
           /\ inflight[s].key = Key
           /\ ListResolveOKOf(s))
              => requirementRows' = ListResponse(srv, Key, "cache").items]_vars

--------------------------------------------------------------------------
(* Claims about the refill of the mirror, checked under RefillSpec *)

\* C28: after updateQuery has emptied the mirror, with every list fetch
\* answered, the mirror is eventually filled again with the rows of the
\* active query, also when the committed query string is the current one
\* and when the next response equals the cached data.
C28_MirrorRefilled ==
    (lastEvent = "updateQuery")
        ~> (requirementRows # <<>> /\ RowsOfQuery(requirementRows, Key))

--------------------------------------------------------------------------
(* Claims about the detail view, checked under DetailSpec *)

\* C29: in the detail view, once the POST of archive or restore has
\* succeeded the workflow shows the success toast and leaves for the list,
\* whatever the outcome of the GET of the record that follows; a failure of
\* that GET is not shown as a failure of the archive or restore.
C29_SuccessWhateverTheSync ==
    [][\A s \in Slots, ok \in BOOLEAN, failure \in FailureKinds :
          DetailSyncedWith(s, ok, failure)
              => /\ toast'.level = "success"
                 /\ lastEvent' = "detailToList"]_vars

--------------------------------------------------------------------------
(* Claims about the triage panel, checked under TriageSpec *)

\* C30: after a bulk triage save whose request fails, the mirror, the
\* selection and the values entered in the form of the panel are the same as
\* before the submit.
C30_FailedTriageLeavesEverything ==
    [][\A s \in Slots, failure \in FailureKinds :
          TriageFailWith(s, failure)
              => /\ requirementRows' = requirementRows
                 /\ selectedIds' = selectedIds
                 /\ triageSave'.form = triageSave.form]_vars

\* the part of C30 that holds: the mirror and the selection
C30_FailedTriageLeavesMirrorAndSelection ==
    [][\A s \in Slots, failure \in FailureKinds :
          TriageFailWith(s, failure)
              => /\ requirementRows' = requirementRows
                 /\ selectedIds' = selectedIds]_vars

--------------------------------------------------------------------------
(* Claims about the message of a failed call *)

\* the message C31 expects: the detail of the server when the error carries
\* one, the fallback of the workflow otherwise
DetailOrFallback(failure, fallback) ==
    Toast("error", IF failure.text = "detail" THEN "payload.detail" ELSE fallback)

\* C31: when the call of a mutation workflow (complete, archive, bulk dismiss,
\* bulk triage save, archive of the detail view) fails, the message shown is
\* the detail provided by the server when the error carries one and the
\* generic message of the workflow only otherwise.
C31_DetailElseFallback ==
    [][\A s \in Slots, failure \in FailureKinds :
          /\ CompleteFailWith(s, failure)
                => toast' = DetailOrFallback(failure, "requirements.completeError")
          /\ ArchiveFailWith(s, failure)
                => toast' = DetailOrFallback(failure, "requirements.detail.archiveError")
          /\ DismissFailWith(s, failure)
                => toast' = DetailOrFallback(failure, "triage.error")
          /\ TriageFailWith(s, failure)
                => toast' = DetailOrFallback(failure, "triage.error")
          /\ DetailPostedWith(s, FALSE, failure)
                => toast' = DetailOrFallback(failure, "requirements.detail.archiveError")]_vars

\* what the code does for every workflow but the triage save: the message of
\* the ApiError, which is never empty, and the fallback for any other error
C31_MessageOfTheErrorElseFallback ==
    [][\A s \in Slots, failure \in FailureKinds :
          /\ CompleteFailWith(s, failure)
                => toast' = Toast("error", CatchMessage(failure, "requirements.completeError"))
          /\ DismissFailWith(s, failure)
                => toast' = Toast("error", CatchMessage(failure, "triage.error"))
          /\ TriageFailWith(s, failure) => toast' = Toast("error", "triage.error")]_vars

--------------------------------------------------------------------------
(* Claims about the documents page, checked under DocSpec *)

\* the effect that sent the poll p was cleaned up (isCancelled)
PollTornDown(p) == p.effect # docs.effect

\* the context that started the refresh r is gone: the page for the refresh
\* of the mount effect, the poll effect for the refresh a poll started
RefreshTornDown(r) == ~docs.mounted \/ (r # 0 /\ r # docs.effect)

\* the poll half of C32: a poll answered after the cleanup of its effect
\* writes neither the rows nor the tracked id and schedules no timer
C32_LatePollWritesNothing ==
    [][\A p \in docs.polls, o \in AllPollOutcomes :
          (PollTornDown(p) /\ PollSettlesWith(p, o))
              => /\ docs'.documentRows = docs.documentRows
                 /\ docs'.pendingDocumentId = docs.pendingDocumentId
                 /\ docs'.timers = docs.timers]_vars

\* C32: after the context that started it was torn down (cleanup of the
\* effect, unmount), a response that resolves late causes no write: the poll
\* writes neither the rows nor the tracked id and schedules no timer, and a
\* list refresh still in flight does not write the rows.
C32_NoWriteAfterTeardown ==
    [][/\ \A p \in docs.polls, o \in AllPollOutcomes :
            (PollTornDown(p) /\ PollSettlesWith(p, o))
                => /\ docs'.documentRows = docs.documentRows
                   /\ docs'.pendingDocumentId = docs.pendingDocumentId
                   /\ docs'.timers = docs.timers
       /\ \A r \in docs.refreshes, status \in {200, 401, 500} :
            (RefreshTornDown(r) /\ RefreshSettlesWith(r, status))
                => docs'.documentRows = docs.documentRows]_vars

\* the timer left by a poll that polling goes on after
OneTimer(p, delay) == {[effect |-> p.effect, delay |-> delay]}

--------------------------------------------------------------------------
(* Claims about the record the detail view holds, checked under DetailSpec *)

SyncsInFlight(requests) == {s \in Slots : requests[s].kind \in DetailSyncKinds}

\* C34: in the detail view a successful archive or restore POST is followed
\* by one GET of the same record, and once that GET is answered the record
\* and the archive metadata held (state, reason, requested-by, requested-at)
\* are those of the GET response, whatever the POST response carried.
C34_HeldRecordIsTheOneOfTheGet ==
    [][\A s \in Slots :
          /\ DetailPostedWith(s, TRUE, NetworkError)
                => /\ SyncsInFlight(inflight') = SyncsInFlight(inflight) \cup {s}
                   /\ s \notin SyncsInFlight(inflight)
                   /\ inflight'[s].ids = inflight[s].ids
          /\ DetailSyncedWith(s, TRUE, NetworkError)
                => /\ detailView'.currentRequirement = detailView.remote
                   /\ detailView'.archive = extractArchiveMeta(detailView.remote)
                   /\ SyncsInFlight(inflight') = SyncsInFlight(inflight) \ {s}]_vars

\* the GET after an archive was answered: the view holds who asked and when
C34_Witness ==
    /\ lastEvent = "detailToList"
    /\ detailView.left = "list"
    /\ detailView.archive.state = "archived"
    /\ detailView.archive.requestedBy = "by"
    /\ detailView.archive.requestedAt = "at"
    /\ detailView.archive.reason = <<"not", Blank, "applicable">>


--------------------------------------------------------------------------
(* Claims about the form of the detail view, checked under EditSpec *)

\* the fields the dirty flag is said to compare
ComparedFields(d) ==
    IF d.baseline.status = Given(<<"PENDING_REVIEW">>) THEN DetailFields
    ELSE {"status", "dueDate"}

SomeComparedFieldDiffers(d) ==
    \E field \in ComparedFields(d) : d.form[field] # d.baseline[field]

\* C35: the dirty flag is true exactly when a compared field differs from
\* its baseline: all seven fields when the baseline status is
\* PENDING_REVIEW, status and due date otherwise. It is false right after
\* every hydration from a response, and a Save while it is false sends no
\* request.
C35_DirtyFlagAndItsUses ==
    [][/\ isDirty(detailView') <=> SomeComparedFieldDiffers(detailView')
       /\ detailView'.event = "saved" => ~isDirty(detailView')
       /\ \/ isDirty(detailView)
          \/ detailView' # [handleSaveOf(detailView) EXCEPT !.asked = FALSE,
                                                             !.blocked = FALSE]
          \/ /\ detailView'.request = "none"
             /\ detailView'.saves = detailView.saves
             /\ detailView'.remote = detailView.remote]_vars

\* a record that is not in review whose schedule was edited in the form and
\* whose status and due date are the ones of the baseline: Save replied that
\* there are no changes
C35_Witness ==
    /\ detailView.view = "detail"
    /\ ~isTriageMode(detailView)
    /\ detailView.form.frequency # detailView.baseline.frequency
    /\ ~isDirty(detailView)
    /\ detailView.event = "saveNoChanges"
    /\ detailView.request = "none"

\* C36: with a dirty form handleBack asks for the confirmation and leaves
\* only when it returned true, and the handler of beforeunload blocks the
\* unload; with a form that is not dirty handleBack leaves without asking
\* and the unload is not blocked.
C36_LeavingADirtyForm ==
    [][/\ \A confirmed \in BOOLEAN :
            (detailView.left = "none"
                /\ detailView' = handleBackOf(detailView, confirmed)) =>
                IF isDirty(detailView)
                THEN detailView'.asked /\ (detailView'.left = "back" <=> confirmed)
                ELSE ~detailView'.asked /\ detailView'.left = "back"
       /\ detailView'.event = "unload" =>
            /\ detailView'.blocked <=> isDirty(detailView)
            /\ detailView'.left = "unloaded" <=> ~isDirty(detailView)]_vars

\* the user edited the form, pressed Back and declined the confirmation: the
\* view is still shown
C36_Witness ==
    /\ detailView.view = "detail"
    /\ isDirty(detailView)
    /\ detailView.event = "backRefused"
    /\ detailView.asked
    /\ detailView.left = "none"

\* the unload of a dirty form was blocked
C36_UnloadBlocked ==
    detailView.event = "unload" /\ detailView.blocked /\ detailView.left = "none"


--------------------------------------------------------------------------
(* Claims about the Previous control of the list, checked under Spec *)

\* C37: whenever the page shown by the list is greater than 1, Previous
\* requests the page before it, also when the page shown is greater than
\* the page count.
C37_PreviousRequestsThePageBefore ==
    currentPage(requirements, decoded.page) > 1 =>
        goTo(currentPage(requirements, decoded.page) - 1,
             pageCount(requirements, requirementRows))

\* Previous requests the page before the one shown when that page lies
\* within the page count
C37_PreviousWithinThePageCount ==
    (/\ currentPage(requirements, decoded.page) > 1
     /\ currentPage(requirements, decoded.page)
            <= pageCount(requirements, requirementRows) + 1) =>
        goTo(currentPage(requirements, decoded.page) - 1,
             pageCount(requirements, requirementRows))


--------------------------------------------------------------------------
(* Claims about the prefetch of the server page, checked under CodecSpec *)

\* C38: the prefetch of the server page is made with the page, due, status
\* and archived parameters the controller derives from the same query
\* string.
C38_SeedHasTheParametersOfTheController == SeedKey(query) = decoded.params

\* with no status and no archived parameter, a due key that is absent or
\* holds exactly one filter, and a page written as a positive integer the
\* two requests are the same
C38_SeedOfAPlainQuery ==
    (/\ decoded.params.status = Absent
     /\ decoded.params.archived = Absent
     /\ Len(decoded.due) <= 1
     /\ query.due = decoded.params.due
     /\ query.page.present => ToNumber(query.page.value) = Num(decoded.page)) =>
        SeedKey(query) = decoded.params

\* a plain query with a due filter and a page
C38_PlainQueryReached ==
    /\ Len(decoded.due) = 1
    /\ decoded.page > 1
    /\ SeedKey(query) = decoded.params


--------------------------------------------------------------------------
(* Claims about the state of the header checkbox, checked under
   SelectAllSpec *)

\* the three flags as the claim words them
TriState(rows, selected) ==
    LET page == SelectableIds(rows)
        st == selectAllState(rows, selected)
    IN  /\ st.hasSelectable <=> \E i \in 1..Len(rows) : rows[i].status = "PENDING_REVIEW"
        /\ st.allSelected <=> (st.hasSelectable /\ page \subseteq IdsOf(selected))
        /\ st.someSelected <=> page \cap IdsOf(selected) # {}
        /\ st.allSelected => st.someSelected

\* C39: hasSelectable holds exactly when the mirror has a PENDING_REVIEW
\* row, allSelected exactly when it has one and every selectable id is
\* selected, someSelected exactly when a selectable id is selected; so
\* allSelected implies someSelected, after toggleAll(true) allSelected holds
\* when hasSelectable does, and after toggleAll(false) someSelected is false.
C39_HeaderTriState ==
    /\ TriState(requirementRows, selectedIds)
    /\ [][/\ TriState(requirementRows', selectedIds')
          /\ toggleSelectAllOf(TRUE) =>
                (selectAllState(requirementRows', selectedIds').hasSelectable
                    => selectAllState(requirementRows', selectedIds').allSelected)
          /\ toggleSelectAllOf(FALSE) =>
                ~selectAllState(requirementRows', selectedIds').someSelected]_vars

\* the header was unchecked on a page with records to be triaged while the
\* record of another page is selected: no flag but hasSelectable is set
C39_Witness ==
    /\ lastEvent = "selectNone"
    /\ selectAllState(requirementRows, selectedIds)
          = [hasSelectable |-> TRUE, allSelected |-> FALSE, someSelected |-> FALSE]
    /\ selectedIds = <<3>>


--------------------------------------------------------------------------
(* Claims about what updateQuery leaves alone, checked under CodecSpec *)

\* C40: updateQuery changes only the keys its patch names: without
\* dueFilters the due key stays, without statusFilters the status and
\* archived keys stay, without page the page key stays, and a key the codec
\* does not know always stays; page 1 removes the page key and a larger
\* page is written as its decimal digits.
C40_UpdateQueryFrame ==
    [][LET next == lastPatch'.next
       IN  /\ ~next.dueFilters.present => query'.due = query.due
           /\ ~next.statusFilters.present =>
                  query'.status = query.status /\ query'.archived = query.archived
           /\ ~next.page.present => query'.page = query.page
           /\ query'.other = query.other
           /\ (next.page.present /\ next.page.value = 1) => ~query'.page.present
           /\ (next.page.present /\ next.page.value > 1) =>
                  /\ query'.page.present
                  /\ \A i \in 1..Len(query'.page.value) : IsDigit(query'.page.value[i])
                  /\ ToNumber(query'.page.value) = Num(next.page.value)]_vars

\* a status patch on a query with a due filter, a page that is no number and
\* a key the codec does not know: only the status key was written
C40_Witness ==
    /\ lastPatch.called
    /\ lastPatch.next = StatusPatch(<<"triage">>)
    /\ query.due = Given(<<"due7">>)
    /\ query.page = Given(<<"2", "a">>)
    /\ query.other = Given(<<"x">>)
    /\ query.status = Given(<<"PENDING_REVIEW">>)

\* page 12 was written as its two digits, the unknown key is still there
C40_PageWritten ==
    /\ lastPatch.called
    /\ lastPatch.next = PagePatch(12)
    /\ query.page = Given(<<"1", "2">>)
    /\ query.other = Given(<<"x">>)

====
